---- MODULE Spec2Model ----
(***************************************************************************)
(* Model of scripts/memory_cache.py (class MemoryCache): the two-tier      *)
(* cache of the memory-trigger subsystem.  One MemoryCache instance is     *)
(* shared by the threads of Threads.  Every public method is a sequence of *)
(* steps of the calling thread: the step that enters `with self.lock`,     *)
(* the steps of the locked section, and Return, which leaves the `with`    *)
(* block (releasing the lock) and hands the result to the caller.          *)
(***************************************************************************)
EXTENDS Naturals, Integers, Sequences, FiniteSets, TLC

(***************************************************************************)
(* Program constants.                                                      *)
(***************************************************************************)
ENTITY_NAMES_TTL == 300
QUERY_CACHE_TTL == 600
\* the value Test 4 of __main__ configures on the instance
TEST_MAX_QUERY_CACHE_SIZE == 3

(***************************************************************************)
(* Bounds of the model.                                                    *)
(***************************************************************************)
\* MAX_QUERY_CACHE_SIZE of the instance where Test 4's value is not used
SmallMaxSize == 2
\* the number of latest cache_query_result calls the history `inserted` keeps
MaxInserts == 5
\* the clock takes the values k*300 + j, k in 0..MaxEpoch, j in 0..MaxSkew
MaxEpoch == 2
MaxSkew == 1
\* the number of MemoryCache instances constructed on one storage location
MaxInstances == 2
\* triggers one TokenThresholdDetector reports between two reset_state calls
MaxReports == 4

Threads == {"t1", "t2"}
NoThread == "none"

\* None, for a timestamp and for the ttl_seconds argument
NoTime == -1
NoTtl == -1

TimePoints == {k * ENTITY_NAMES_TTL + j : k \in 0..MaxEpoch, j \in 0..MaxSkew}
CoarseTimePoints == {k * ENTITY_NAMES_TTL + MaxSkew : k \in 1..MaxEpoch} \cup {0}

\* entity-name lists: the empty graph, one entity, two entities
NameLists == {<< >>, <<"Project">>, <<"User", "Project">>}
SmallNameLists == {<< >>, <<"Project">>}

\* memory_client argument: None, a client whose read_graph() returns a graph,
\* a client whose read_graph() raises
NoClient == "None"
Clients == {NoClient, "returns", "raises"}

AllQueries == {"q0", "q1", "q2", "q3", "q4"}
SmallQueries == {"q0", "q1", "q2"}
AllResults == {"r1", "r2"}
OneResult == {"r1"}
\* ttl_seconds argument: omitted (None), or 0 as in Test 7
TtlArgs == {NoTtl, 0}

Range(s) == {s[i] : i \in 1..Len(s)}

(***************************************************************************)
(* State.                                                                  *)
(***************************************************************************)
VARIABLES
    now,                  \* datetime.now(), in seconds
    cache_data,           \* self.cache_data: entity_names slot and query_cache
    MAX_QUERY_CACHE_SIZE, \* self.MAX_QUERY_CACHE_SIZE
    disk,                 \* the JSON document at self.cache_path
    fs_writable,          \* whether open(self.cache_path, 'w') succeeds
    lock,                 \* self.lock: the thread holding it, or NoThread
    pc,                   \* each thread's position
    frame,                \* each thread's arguments and local variables
    ret,                  \* each thread's outcome, set where the method ends
    recency,              \* history: cached query keys, least recently used first
    inserted,             \* history: the queries of the latest run of
                          \* cache_query_result calls, or Untracked
    sweeps,               \* history: the clock readings of the latest (at most
                          \* two) clear_expired calls with no write since, or
                          \* UntrackedSweeps
    constructed,          \* history: the number of MemoryCache instances
                          \* constructed on self.cache_path so far
    thresholds,           \* TokenThresholdDetector: self.thresholds
    triggered,            \* TokenThresholdDetector: self._triggered
    trigger,              \* what the latest TokenThresholdDetector.evaluate returned
    evaluated,            \* history: the context of that evaluate call
    reported,             \* history: the thresholds reported since construction
                          \* or the latest reset_state, in order
    before_reset,         \* history: `reported` as the latest reset_state found it
    fresh,                \* history: a second TokenThresholdDetector, constructed
                          \* with the same config at the latest reset_state
                          \* and given the same evaluate calls since
    _memory_client,       \* EntityMentionDetector: self.__memory_client
    emd,                  \* EntityMentionDetector.evaluate: position, prompt, outcome
    keywords,             \* KeywordDetector: self.keywords
    kwd,                  \* the latest KeywordDetector.evaluate: prompt, outcome
    detect_branch_switch, \* ProjectSwitchDetector: self.detect_branch_switch
    major_branches,       \* ProjectSwitchDetector: self.major_branches
    tracker,              \* the active project the project tracker holds
    psd,                  \* the latest ProjectSwitchDetector.evaluate: context,
                          \* the state evaluate read from the tracker, outcome
    _detectors,           \* DetectorRegistry: the registered detectors
    enabled_detectors,    \* what the latest get_enabled_detectors returned
    _cache_instance       \* the module's _cache_instance: an instance, or None

token_vars == <<thresholds, triggered, trigger, evaluated, reported, before_reset,
               fresh>>
emd_vars == <<_memory_client, emd>>
keyword_vars == <<keywords, kwd>>
project_vars == <<detect_branch_switch, major_branches, tracker, psd>>
registry_vars == <<_detectors, enabled_detectors>>
module_vars == <<_cache_instance>>
detector_vars == <<token_vars, emd_vars, keyword_vars, project_vars, registry_vars,
                   module_vars>>

vars == <<now, cache_data, MAX_QUERY_CACHE_SIZE, disk, fs_writable, lock, pc,
          frame, ret, recency, inserted, sweeps, constructed,
          thresholds, triggered, trigger, evaluated, reported, before_reset,
          fresh, _memory_client, emd, keywords, kwd, detect_branch_switch,
          major_branches, tracker, psd, _detectors, enabled_detectors,
          _cache_instance>>

(***************************************************************************)
(* Values.                                                                 *)
(***************************************************************************)
\* the entity-names slot as __init__, clear_all and _load_cache's fallback build it
EmptySlot ==
    [data |-> << >>, last_refresh |-> NoTime, ttl_seconds |-> ENTITY_NAMES_TTL]

EmptyCache == [entity_names |-> EmptySlot, query_cache |-> << >>]

\* the storage location self.cache_path: no file, a file whose text json.load
\* rejects, or the JSON object of the file as the record of its members
NoFile == [file |-> "missing"]
Unparsable == [file |-> "unparsable"]

\* _hash_query: the SHA-256 hex digest of the query, one digest per query
HashQuery(query) == "sha256:" \o query

NoEntry ==
    [key |-> "", result |-> "", timestamp |-> NoTime, ttl_seconds |-> 0, query |-> ""]

\* a MemoryCache instance is known by its number in the order of construction
NoInstance == [kind |-> "None"]
Instance(n) == [id |-> n]

NoFrame ==
    [op |-> "", caller |-> "", query |-> "", client |-> NoClient, force |-> FALSE,
     needs_refresh |-> FALSE, names |-> << >>, entity_cache |-> EmptySlot,
     cache_entry |-> NoEntry,
     expired_keys |-> << >>, removed_count |-> 0, reads |-> 0, evicted |-> 0,
     instance |-> NoInstance]

\* outcomes of a call
NoRet == [kind |-> "pending", val |-> << >>]
Returned(v) == [kind |-> "return", val |-> v]
ReturnedNone == [kind |-> "return", val |-> "None"]
Raised == [kind |-> "raise", val |-> "Exception"]

(***************************************************************************)
(* The OrderedDict self.cache_data["query_cache"], as the sequence of its  *)
(* entries in iteration order (first = oldest, last = most recently used). *)
(***************************************************************************)
Keys(qc) == {qc[i].key : i \in 1..Len(qc)}
KeySeq(qc) == [i \in 1..Len(qc) |-> qc[i].key]
HasKey(qc, k) == k \in Keys(qc)
Lookup(qc, k) == qc[CHOOSE i \in 1..Len(qc) : qc[i].key = k]
\* del d[k]
DelKey(qc, k) == SelectSeq(qc, LAMBDA e : e.key # k)
\* the entry put at the least-recently-used end
InsertFirst(qc, e) == <<e>> \o qc
\* d[k] = e for a key that is not in d
Insert(qc, e) == Append(qc, e)
\* mutant of PopFirst: popitem() with its default last=True
PopLast(qc) == SubSeq(qc, 1, Len(qc) - 1)

\* d.popitem(last=False)
PopFirst(qc) == Tail(qc)
\* d.move_to_end(k)
MoveToEnd(qc, k) == Append(DelKey(qc, k), Lookup(qc, k))

\* datetime.now() > fromisoformat(timestamp) + timedelta(seconds=ttl_seconds)
Expired(timestamp, ttl_seconds, t) == t > timestamp + ttl_seconds

\* history: key k was just inserted or hit
Touch(rec, k) == Append(SelectSeq(rec, LAMBDA x : x # k), k)
\* history: keep the keys that are still cached
Present(rec, qc) == SelectSeq(rec, LAMBDA x : x \in Keys(qc))

\* history: the run of cache_query_result calls is not recorded
Untracked == <<"-">>
\* history: one more cache_query_result call (the latest MaxInserts are kept)
Inserted(ins, query) ==
    IF ins = Untracked THEN Untracked
    ELSE IF Len(ins) < MaxInserts THEN Append(ins, query)
    ELSE Append(Tail(ins), query)
\* history: a call of another method that reads or changes the query cache
EndRun(ins) == IF ins = Untracked THEN Untracked ELSE << >>

\* history: the clear_expired calls are not recorded
UntrackedSweeps == <<NoTime>>
\* history: a clear_expired call that reads the clock at t
Sweep(sw, t) ==
    IF sw = UntrackedSweeps THEN UntrackedSweeps
    ELSE IF sw = << >> THEN <<t>>
    ELSE <<sw[Len(sw)], t>>
\* history: a write (cache_entity_names, cache_query_result, clear_all)
Written(sw) == IF sw = UntrackedSweeps THEN UntrackedSweeps ELSE << >>

(***************************************************************************)
(* _save_cache: the whole cache state replaces the document; a failure of  *)
(* open() is swallowed and leaves the document as it was.                  *)
(***************************************************************************)
SaveCache(data) == IF fs_writable THEN data ELSE disk

\* mutant of AfterSaveCache: the exception of a failed write reaches the caller
AfterSaveCacheRaising(outcome) == IF fs_writable THEN outcome ELSE Raised

\* lines 328-329: an exception of the write is caught and printed, so the
\* method that called _save_cache goes on to its own outcome
AfterSaveCache(outcome) == outcome

\* mutant of LockFree: the method bodies run without taking self.lock
LockNotTaken == TRUE

\* `with self.lock` can be entered: threading.Lock is not reentrant, so this is
\* false also for the thread that holds it
LockFree == lock = NoThread

\* mutant of NeedsRefresh: the slot counts as expired at last_refresh + ttl already
NeedsRefreshAtBoundary(slot, force, t) ==
    \/ force
    \/ slot.last_refresh = NoTime
    \/ t >= slot.last_refresh + slot.ttl_seconds

\* mutant of NeedsRefresh: the slot counts as valid one second longer
NeedsRefreshLate(slot, force, t) ==
    \/ force
    \/ slot.last_refresh = NoTime
    \/ t > slot.last_refresh + slot.ttl_seconds + 1

\* lines 82-90 of get_entity_names: force_refresh, or never refreshed, or expired
NeedsRefresh(slot, force, t) ==
    \/ force
    \/ slot.last_refresh = NoTime
    \/ Expired(slot.last_refresh, slot.ttl_seconds, t)

(***************************************************************************)
(* Values of memory_detectors/token_threshold_detector.py and              *)
(* memory_detectors/entity_mention_detector.py.                            *)
(***************************************************************************)
DEFAULT_THRESHOLDS == <<100000, 150000>>

\* config values: a list, or a value that is not a list
List(v) == [type |-> "list", value |-> v]
NotList(v) == [type |-> "int", value |-> v]

\* configs: no 'thresholds' key; an unsorted list (test_threshold_ordering);
\* a list that names one threshold twice; an empty list; not a list
DefaultConfig == [priority |-> NotList(4)]
Configs ==
    {DefaultConfig,
     [thresholds |-> List(<<150000, 100000, 50000>>)],
     [thresholds |-> List(<<100000, 50000, 100000>>)],
     [thresholds |-> List(<< >>)],
     [thresholds |-> NotList(100000)]}

\* token counts: none or negative, below the smallest threshold, each threshold,
\* and each threshold's overage of 10000 and of 10001
TokenCounts ==
    {-1000, 0, 49999, 50000, 60000, 60001, 100000, 105000, 110000, 110001,
     150000, 160000, 160001}

\* contexts: with a token_count, and without one
Contexts == {[token_count |-> n] : n \in TokenCounts} \cup {[session_id |-> "s1"]}

\* context.get(key, default) with a missing token_count read as a count of 100000
GetAsReached(dict, key, default) == IF key \in DOMAIN dict THEN dict[key] ELSE 100000

\* dict.get(key, default)
Get(dict, key, default) == IF key \in DOMAIN dict THEN dict[key] ELSE default

\* the list as it was configured
AsConfigured(list) == list

\* sorted(list)
Sorted(list) == SortSeq(list, LAMBDA a, b : a < b)

\* lines 50-53: self.thresholds
ConfiguredThresholds(config) ==
    IF "thresholds" \in DOMAIN config /\ config.thresholds.type = "list"
    THEN Sorted(config.thresholds.value)
    ELSE DEFAULT_THRESHOLDS

\* evaluate has not been called / evaluate returned None
NoTrigger == [kind |-> "none"]
Absent == [kind |-> "absent"]
NoContext == [none |-> TRUE]

\* a detector as __init__ leaves it, before its first evaluate
Constructed == [triggered |-> {}, trigger |-> NoTrigger]

\* EntityMentionDetector.evaluate is not running; no prompt yet
NoPrompt == ""
NotEvaluated == [kind |-> "pending"]
NoEvaluation == [pc |-> "idle", prompt |-> NoPrompt, ret |-> NotEvaluated]

\* lines 32-53, in the order of the dict
DEFAULT_KEYWORDS ==
    << [category |-> "memory",
        patterns |-> << << <<"remember">>, <<"recall">>, <<"previously">>,
                           <<"earlier">>, <<"last", "time">> >>,
                        << <<"we", "discussed">>, <<"we", "talked", "about">> >>,
                        << <<"from", "before">>, <<"mentioned", "earlier">> >> >>],
       [category |-> "decision",
        patterns |-> << << <<"why", "did", "we">>, <<"how", "did", "we">>,
                           <<"when", "did", "we">> >>,
                        << <<"decided">>, <<"chose">>, <<"selected">>, <<"picked">> >>,
                        << <<"decision">>, <<"rationale">>, <<"reasoning">> >> >>],
       [category |-> "architecture",
        patterns |-> << << <<"architecture">>, <<"architectural">>, <<"design">> >>,
                        << <<"pattern">>, <<"approach">>, <<"structure">> >>,
                        << <<"implementation">>, <<"strategy">> >> >>],
       [category |-> "problem",
        patterns |-> << << <<"issue">>, <<"problem">>, <<"bug">>, <<"error">> >>,
                        << <<"blocker">>, <<"challenge">>, <<"difficulty">> >>,
                        << <<"fix">>, <<"resolve">>, <<"solution">> >> >>] >>

\* config values: a dict, or a value that is not a dict
Dict(v) == [type |-> "dict", value |-> v]
NotDict(v) == [type |-> "str", value |-> v]

\* configs: no 'keywords' key; a category of the caller's own,
\* r"\b(release|roll\s+out)\b"; a value that is not a dict
DefaultKeywordConfig == [priority |-> NotList(2)]
KeywordConfigs ==
    {DefaultKeywordConfig,
     [keywords |-> Dict(<< [category |-> "deploy",
                           patterns |-> << << <<"release">>, <<"roll", "out">> >> >>] >>)],
     [keywords |-> NotDict("remember")]}

\* self.DEFAULT_KEYWORDS, the class attribute itself
ClassKeywords == [attribute |-> "DEFAULT_KEYWORDS"]

\* lines 67-71: self.keywords is the dict of the config or the class attribute
ConfiguredKeywords(config) ==
    IF "keywords" \in DOMAIN config /\ config.keywords.type = "dict"
    THEN config.keywords
    ELSE ClassKeywords

\* lines 73-79: self._compiled_patterns, the patterns of self.keywords
CompiledPatterns(kws) == IF kws = ClassKeywords THEN DEFAULT_KEYWORDS ELSE kws.value

\* KeywordDetector.evaluate has not been called
NoKeywordEvaluation == [prompt |-> NoPrompt, ret |-> NotEvaluated]

\* project_switch_detector.py line 60
DEFAULT_MAJOR_BRANCHES == <<"main", "master", "develop", "development">>

\* configs of ProjectSwitchDetector: the defaults; branch detection off; a
\* major-branches list of the caller's own
DefaultProjectConfig == [enabled |-> TRUE]
ProjectConfigs ==
    {DefaultProjectConfig,
     [detect_branch_switch |-> FALSE],
     [major_branches |-> <<"release">>]}

\* the working directory of the process; relative paths resolve against it
Cwd == "/work"

\* context['current_project'] values: project a; a under another spelling of
\* its path and of its remote; a on two feature branches; a with another
\* remote; project b; b named by a relative path, without a remote; a project
\* without a path; the empty mapping
ProjectA ==
    [name |-> "a", absolute_path |-> "/work/a",
     git_remote_url |-> "https://github.com/o/a.git", git_branch |-> "main"]
EmptyProject == << >>
Projects ==
    {ProjectA,
     [ProjectA EXCEPT !.absolute_path = "/work/b/../a/",
                      !.git_remote_url = "http://github.com/o/a"],
     [ProjectA EXCEPT !.git_branch = "feature-a"],
     [ProjectA EXCEPT !.git_branch = "feature-b"],
     [ProjectA EXCEPT !.git_remote_url = "https://github.com/o/fork.git"],
     [ProjectA EXCEPT !.git_remote_url = "https://github.com/o/ai.git"],
     [ProjectA EXCEPT !.git_branch = ""],
     [name |-> "b", absolute_path |-> "/work/b",
      git_remote_url |-> "https://github.com/o/b.git",
      git_branch |-> "develop"],
     [name |-> "b", absolute_path |-> "b", git_branch |-> "release"],
     [name |-> "c", git_branch |-> "develop"]}

\* contexts: with a current_project, with an empty one, and without one
ProjectContexts ==
    {[current_project |-> p] : p \in Projects \cup {EmptyProject}}
        \cup {[token_count |-> 100000]}

\* the project tracker: the active state it holds, or none
NoActiveProject == [kind |-> "absent"]
\* tracker.set_active_project(project_metadata, has_uncommitted)
SetActiveProject(project_metadata, has_uncommitted) ==
    [project |-> project_metadata, has_uncommitted |-> has_uncommitted]
\* tracker.get_active_project()
GetActiveProject(active) == active

\* the states the tracker can hold when the detector is constructed
TrackerStates ==
    {NoActiveProject} \cup {SetActiveProject(p, FALSE) : p \in Projects}

\* ProjectSwitchDetector.evaluate has not been called
NoProjectEvaluation ==
    [context |-> NoContext, previous |-> NoActiveProject, ret |-> NotEvaluated]

\* KeywordDetector(config)
InitKeyword(config) ==
    /\ keywords = ConfiguredKeywords(config)
    /\ kwd = NoKeywordEvaluation

\* ProjectSwitchDetector(config), lines 52-63, with the tracker holding `active`
InitProject(config, active) ==
    /\ detect_branch_switch = Get(config, "detect_branch_switch", TRUE)
    /\ major_branches = Get(config, "major_branches", DEFAULT_MAJOR_BRANCHES)
    /\ tracker = active
    /\ psd = NoProjectEvaluation

\* DetectorRegistry()
InitRegistry ==
    /\ _detectors = << >>
    /\ enabled_detectors = [listed |-> FALSE, detectors |-> << >>]

\* TokenThresholdDetector(config)
InitToken(config) ==
    /\ thresholds = ConfiguredThresholds(config)
    /\ triggered = Constructed.triggered
    /\ trigger = Constructed.trigger
    /\ evaluated = NoContext
    /\ reported = << >>
    /\ before_reset = << >>
    /\ fresh = Constructed

\* EntityMentionDetector(config)
InitEmd ==
    /\ _memory_client = NoClient
    /\ emd = NoEvaluation

\* KeywordDetector, ProjectSwitchDetector (the tracker holding no project)
\* and DetectorRegistry, as their constructors leave them
InitOthers ==
    /\ InitKeyword(DefaultKeywordConfig)
    /\ InitProject(DefaultProjectConfig, NoActiveProject)
    /\ InitRegistry

\* the detectors as their constructors leave them, with the default config
InitDetectors ==
    /\ InitToken(DefaultConfig)
    /\ InitEmd
    /\ InitOthers

InitCache(max_size, history, writable, sw) ==
    /\ now = 0
    /\ cache_data = EmptyCache
    /\ MAX_QUERY_CACHE_SIZE = max_size
    /\ disk = NoFile
    /\ fs_writable \in writable
    /\ lock = NoThread
    /\ pc = [t \in Threads |-> "idle"]
    /\ frame = [t \in Threads |-> NoFrame]
    /\ ret = [t \in Threads |-> NoRet]
    /\ recency = << >>
    /\ inserted = history
    /\ sweeps = sw
    /\ constructed = 1
    /\ _cache_instance = NoInstance

InitWith(max_size, history, writable) ==
    /\ InitCache(max_size, history, writable, UntrackedSweeps)
    /\ InitDetectors

Init == InitWith(SmallMaxSize, Untracked, BOOLEAN)

(***************************************************************************)
(* get_entity_names                                                        *)
(***************************************************************************)
\* lines 78-93: enter the lock, decide whether a refresh is needed
GetEntityNames(t, memory_client, force_refresh) ==
    /\ pc[t] = "idle"
    /\ LockFree
    /\ lock' = t
    /\ LET entity_cache == cache_data.entity_names
           needs_refresh == NeedsRefresh(entity_cache, force_refresh, now)
       IN  /\ frame' = [frame EXCEPT ![t] =
                  [NoFrame EXCEPT !.op = "get_entity_names",
                                  !.client = memory_client,
                                  !.force = force_refresh,
                                  !.needs_refresh = needs_refresh,
                                  !.entity_cache = entity_cache]]
           /\ pc' = [pc EXCEPT ![t] =
                  IF needs_refresh /\ memory_client # NoClient
                  THEN "gen_refresh" ELSE "gen_return"]
    /\ UNCHANGED <<now, cache_data, MAX_QUERY_CACHE_SIZE, disk, fs_writable, ret,
                   recency,
                   inserted>>
    /\ UNCHANGED <<sweeps, constructed>>
    /\ UNCHANGED detector_vars

\* mutant of RefreshFailed: the fallback is taken whenever a refresh was stored
RefreshFailedByTimestamp(entity_cache) ==
    IF entity_cache.last_refresh # NoTime
    THEN Returned(entity_cache.data) ELSE Raised

\* lines 99-103: the handler of a failed refresh
RefreshFailed(entity_cache) ==
    IF entity_cache.data # << >> THEN Returned(entity_cache.data) ELSE Raised

\* lines 94-103 with the time of a failed refresh stored as last_refresh
ReadGraphStampingFailure(t, graph_names) ==
    /\ pc[t] = "gen_refresh"
    /\ IF frame[t].client = "returns"
       THEN /\ frame' = [frame EXCEPT ![t].names = graph_names, ![t].reads = @ + 1]
            /\ pc' = [pc EXCEPT ![t] = "gen_store"]
            /\ ret' = ret
            /\ cache_data' = cache_data
       ELSE /\ frame' = [frame EXCEPT ![t].reads = @ + 1]
            /\ pc' = [pc EXCEPT ![t] = "done"]
            /\ ret' = [ret EXCEPT ![t] = RefreshFailed(frame[t].entity_cache)]
            /\ cache_data' = [cache_data EXCEPT !.entity_names.last_refresh = now]
    /\ UNCHANGED <<now, MAX_QUERY_CACHE_SIZE, disk, fs_writable, lock, recency,
                   inserted>>
    /\ UNCHANGED <<sweeps, constructed>>
    /\ UNCHANGED detector_vars

\* lines 94-103: memory_client.read_graph(); on an exception the cached data is
\* returned when it is non-empty, and the exception is re-raised otherwise
ReadGraph(t, graph_names) ==
    /\ pc[t] = "gen_refresh"
    /\ IF frame[t].client = "returns"
       THEN /\ frame' = [frame EXCEPT ![t].names = graph_names, ![t].reads = @ + 1]
            /\ pc' = [pc EXCEPT ![t] = "gen_store"]
            /\ ret' = ret
       ELSE /\ frame' = [frame EXCEPT ![t].reads = @ + 1]
            /\ pc' = [pc EXCEPT ![t] = "done"]
            /\ ret' = [ret EXCEPT ![t] = RefreshFailed(frame[t].entity_cache)]
    /\ UNCHANGED <<now, cache_data, MAX_QUERY_CACHE_SIZE, disk, fs_writable, lock,
                   recency,
                   inserted>>
    /\ UNCHANGED <<sweeps, constructed>>
    /\ UNCHANGED detector_vars

\* line 105: return entity_cache["data"], the dict bound at line 79
GenReturn(t) ==
    /\ pc[t] = "gen_return"
    /\ ret' = [ret EXCEPT ![t] = Returned(frame[t].entity_cache.data)]
    /\ pc' = [pc EXCEPT ![t] = "done"]
    /\ UNCHANGED <<now, cache_data, MAX_QUERY_CACHE_SIZE, disk, fs_writable, lock,
                   frame, recency,
                   inserted>>
    /\ UNCHANGED <<sweeps, constructed>>
    /\ UNCHANGED detector_vars

(***************************************************************************)
(* cache_entity_names, called by a client (pc = "idle") or by              *)
(* get_entity_names at line 98 (pc = "gen_store"), where the calling       *)
(* thread already holds self.lock.                                         *)
(***************************************************************************)
CacheEntityNames(t, names) ==
    /\ \/ pc[t] = "idle"
       \/ pc[t] = "gen_store" /\ names = frame[t].names
    /\ LockFree
    /\ lock' = t
    /\ cache_data' = [cache_data EXCEPT !.entity_names =
           [data |-> names, last_refresh |-> now, ttl_seconds |-> ENTITY_NAMES_TTL]]
    /\ disk' = SaveCache(cache_data')
    /\ frame' = [frame EXCEPT ![t] =
           IF pc[t] = "idle"
           THEN [NoFrame EXCEPT !.op = "cache_entity_names", !.names = names]
           ELSE [frame[t] EXCEPT !.caller = "get_entity_names"]]
    /\ ret' = [ret EXCEPT ![t] = AfterSaveCache(ReturnedNone)]
    /\ pc' = [pc EXCEPT ![t] = "done"]
    /\ UNCHANGED <<now, MAX_QUERY_CACHE_SIZE, fs_writable, recency,
                   inserted>>
    /\ sweeps' = Written(sweeps)
    /\ UNCHANGED constructed
    /\ UNCHANGED detector_vars

(***************************************************************************)
(* cache_query_result                                                      *)
(***************************************************************************)
\* lines 131-151: default ttl, enter the lock, drop the key if present, insert
CacheQueryResult(t, query, result, ttl_arg) ==
    /\ pc[t] = "idle"
    /\ LockFree
    /\ lock' = t
    /\ LET ttl_seconds == IF ttl_arg = NoTtl THEN QUERY_CACHE_TTL ELSE ttl_arg
           cache_key == HashQuery(query)
           cache_entry == [key |-> cache_key, result |-> result, timestamp |-> now,
                           ttl_seconds |-> ttl_seconds, query |-> query]
           qc == cache_data.query_cache
           removed == IF HasKey(qc, cache_key) THEN DelKey(qc, cache_key) ELSE qc
       IN  /\ cache_data' = [cache_data EXCEPT !.query_cache =
                                 Insert(removed, cache_entry)]
           /\ recency' = Touch(recency, cache_key)
           /\ frame' = [frame EXCEPT ![t] =
                  [NoFrame EXCEPT !.op = "cache_query_result", !.query = query,
                                  !.cache_entry = cache_entry]]
    /\ pc' = [pc EXCEPT ![t] = "cqr_evict"]
    /\ inserted' = Inserted(inserted, query)
    /\ UNCHANGED <<now, MAX_QUERY_CACHE_SIZE, disk, fs_writable, ret>>
    /\ sweeps' = Written(sweeps)
    /\ UNCHANGED constructed
    /\ UNCHANGED detector_vars

\* mutant of OverMax: the loop stops one entry early
OverMaxOffByOne(qc) == Len(qc) > MAX_QUERY_CACHE_SIZE + 1

\* the loop test of line 154
OverMax(qc) == Len(qc) > MAX_QUERY_CACHE_SIZE

\* lines 154-158: one iteration of the eviction loop, or its exit and the save
Evict(t) ==
    /\ pc[t] = "cqr_evict"
    /\ IF OverMax(cache_data.query_cache)
       THEN /\ cache_data' = [cache_data EXCEPT !.query_cache = PopFirst(@)]
            /\ recency' = Present(recency, cache_data'.query_cache)
            /\ frame' = [frame EXCEPT ![t].evicted = @ + 1]
            /\ UNCHANGED <<disk, ret, pc>>
       ELSE /\ disk' = SaveCache(cache_data)
            /\ ret' = [ret EXCEPT ![t] = AfterSaveCache(ReturnedNone)]
            /\ pc' = [pc EXCEPT ![t] = "done"]
            /\ UNCHANGED <<cache_data, recency, frame>>
    /\ UNCHANGED <<now, MAX_QUERY_CACHE_SIZE, fs_writable, lock,
                   inserted>>
    /\ UNCHANGED <<sweeps, constructed>>
    /\ UNCHANGED detector_vars

(***************************************************************************)
(* get_cached_query                                                        *)
(***************************************************************************)
\* lines 170-176: enter the lock, look the key up
GetCachedQuery(t, query) ==
    /\ pc[t] = "idle"
    /\ LockFree
    /\ lock' = t
    /\ LET cache_key == HashQuery(query)
           qc == cache_data.query_cache
       IN  IF ~HasKey(qc, cache_key)
           THEN /\ frame' = [frame EXCEPT ![t] =
                       [NoFrame EXCEPT !.op = "get_cached_query", !.query = query]]
                /\ ret' = [ret EXCEPT ![t] = ReturnedNone]
                /\ pc' = [pc EXCEPT ![t] = "done"]
           ELSE /\ frame' = [frame EXCEPT ![t] =
                       [NoFrame EXCEPT !.op = "get_cached_query", !.query = query,
                                       !.cache_entry = Lookup(qc, cache_key)]]
                /\ ret' = ret
                /\ pc' = [pc EXCEPT ![t] = "gcq_check"]
    /\ inserted' = EndRun(inserted)
    /\ UNCHANGED <<now, cache_data, MAX_QUERY_CACHE_SIZE, disk, fs_writable, recency>>
    /\ UNCHANGED <<sweeps, constructed>>
    /\ UNCHANGED detector_vars

\* mutant of EntryExpired: an entry expires at timestamp + ttl_seconds already
EntryExpiredAtBoundary(cache_entry, t) ==
    t >= cache_entry.timestamp + cache_entry.ttl_seconds

\* line 182
EntryExpired(cache_entry, t) ==
    Expired(cache_entry.timestamp, cache_entry.ttl_seconds, t)

\* mutant of Promote: the hit does not move the entry
PromoteSkipped(qc, cache_key) == qc

\* line 189
Promote(qc, cache_key) ==
    IF HasKey(qc, cache_key) THEN MoveToEnd(qc, cache_key) ELSE qc

\* lines 178-191: an expired entry is deleted and saved, a valid one is moved to
\* the end and its result returned
GcqCheck(t) ==
    /\ pc[t] = "gcq_check"
    /\ LET cache_entry == frame[t].cache_entry
           qc == cache_data.query_cache
       IN  IF EntryExpired(cache_entry, now)
           THEN /\ cache_data' = [cache_data EXCEPT !.query_cache =
                                      DelKey(qc, cache_entry.key)]
                /\ disk' = SaveCache(cache_data')
                /\ recency' = Present(recency, cache_data'.query_cache)
                /\ ret' = [ret EXCEPT ![t] = AfterSaveCache(ReturnedNone)]
           ELSE /\ cache_data' = [cache_data EXCEPT !.query_cache =
                                      Promote(qc, cache_entry.key)]
                /\ disk' = disk
                /\ recency' = Touch(recency, cache_entry.key)
                /\ ret' = [ret EXCEPT ![t] = Returned(cache_entry.result)]
    /\ pc' = [pc EXCEPT ![t] = "done"]
    /\ UNCHANGED <<now, MAX_QUERY_CACHE_SIZE, fs_writable, lock, frame,
                   inserted>>
    /\ UNCHANGED <<sweeps, constructed>>
    /\ UNCHANGED detector_vars

(***************************************************************************)
(* clear_expired                                                           *)
(***************************************************************************)
\* mutant of ExpiredKeys: an entry is collected at timestamp + ttl_seconds already
ExpiredKeysAtBoundary(qc, t) ==
    KeySeq(SelectSeq(qc, LAMBDA e : t >= e.timestamp + e.ttl_seconds))

\* the sweep that collects only the first expired key
ExpiredKeysFirstOnly(qc, t) ==
    LET keys == KeySeq(SelectSeq(qc, LAMBDA e : EntryExpired(e, t)))
    IN  SubSeq(keys, 1, IF Len(keys) > 0 THEN 1 ELSE 0)

\* lines 217-222: the keys of the expired entries, in iteration order
ExpiredKeys(qc, t) == KeySeq(SelectSeq(qc, LAMBDA e : EntryExpired(e, t)))

\* lines 200-222 without line 211: a stale slot loses its refresh time and
\* keeps its names
ClearExpiredKeepingNames(t) ==
    /\ pc[t] = "idle"
    /\ LockFree
    /\ lock' = t
    /\ LET entity_cache == cache_data.entity_names
           stale == /\ entity_cache.last_refresh # NoTime
                    /\ Expired(entity_cache.last_refresh, entity_cache.ttl_seconds, now)
       IN  /\ cache_data' = [cache_data EXCEPT !.entity_names =
                  IF stale
                  THEN [entity_cache EXCEPT !.last_refresh = NoTime]
                  ELSE entity_cache]
           /\ frame' = [frame EXCEPT ![t] =
                  [NoFrame EXCEPT !.op = "clear_expired",
                                  !.removed_count = IF stale THEN 1 ELSE 0,
                                  !.expired_keys =
                                      ExpiredKeys(cache_data.query_cache, now)]]
    /\ pc' = [pc EXCEPT ![t] = "ce_remove"]
    /\ inserted' = EndRun(inserted)
    /\ UNCHANGED <<now, MAX_QUERY_CACHE_SIZE, disk, fs_writable, ret, recency>>
    /\ sweeps' = Sweep(sweeps, now)
    /\ UNCHANGED constructed
    /\ UNCHANGED detector_vars

\* lines 200-222: enter the lock, reset a stale entity slot in place, collect
\* the expired keys
ClearExpired(t) ==
    /\ pc[t] = "idle"
    /\ LockFree
    /\ lock' = t
    /\ LET entity_cache == cache_data.entity_names
           stale == /\ entity_cache.last_refresh # NoTime
                    /\ Expired(entity_cache.last_refresh, entity_cache.ttl_seconds, now)
       IN  /\ cache_data' = [cache_data EXCEPT !.entity_names =
                  IF stale
                  THEN [entity_cache EXCEPT !.data = << >>, !.last_refresh = NoTime]
                  ELSE entity_cache]
           /\ frame' = [frame EXCEPT ![t] =
                  [NoFrame EXCEPT !.op = "clear_expired",
                                  !.removed_count = IF stale THEN 1 ELSE 0,
                                  !.expired_keys =
                                      ExpiredKeys(cache_data.query_cache, now)]]
    /\ pc' = [pc EXCEPT ![t] = "ce_remove"]
    /\ inserted' = EndRun(inserted)
    /\ UNCHANGED <<now, MAX_QUERY_CACHE_SIZE, disk, fs_writable, ret, recency>>
    /\ sweeps' = Sweep(sweeps, now)
    /\ UNCHANGED constructed
    /\ UNCHANGED detector_vars

\* lines 225-232: delete the collected keys, save if anything was removed
CeRemove(t) ==
    /\ pc[t] = "ce_remove"
    /\ LET expired_keys == frame[t].expired_keys
           removed_count == frame[t].removed_count + Len(expired_keys)
       IN  /\ cache_data' = [cache_data EXCEPT !.query_cache =
                  SelectSeq(@, LAMBDA e : e.key \notin Range(expired_keys))]
           /\ disk' = IF removed_count > 0 THEN SaveCache(cache_data') ELSE disk
           /\ frame' = [frame EXCEPT ![t].removed_count = removed_count]
           /\ ret' = [ret EXCEPT ![t] =
                  IF removed_count > 0
                  THEN AfterSaveCache(Returned(removed_count))
                  ELSE Returned(removed_count)]
    /\ recency' = Present(recency, cache_data'.query_cache)
    /\ pc' = [pc EXCEPT ![t] = "done"]
    /\ UNCHANGED <<now, MAX_QUERY_CACHE_SIZE, fs_writable, lock,
                   inserted>>
    /\ UNCHANGED <<sweeps, constructed>>
    /\ UNCHANGED detector_vars

(***************************************************************************)
(* clear_all, get_stats                                                    *)
(***************************************************************************)
\* lines 236-245
ClearAll(t) ==
    /\ pc[t] = "idle"
    /\ LockFree
    /\ lock' = t
    /\ cache_data' = EmptyCache
    /\ disk' = SaveCache(cache_data')
    /\ recency' = << >>
    /\ frame' = [frame EXCEPT ![t] = [NoFrame EXCEPT !.op = "clear_all"]]
    /\ ret' = [ret EXCEPT ![t] = AfterSaveCache(ReturnedNone)]
    /\ pc' = [pc EXCEPT ![t] = "done"]
    /\ inserted' = EndRun(inserted)
    /\ UNCHANGED <<now, MAX_QUERY_CACHE_SIZE, fs_writable>>
    /\ sweeps' = Written(sweeps)
    /\ UNCHANGED constructed
    /\ UNCHANGED detector_vars

\* lines 254-270
Stats ==
    LET entity_cache == cache_data.entity_names
    IN  [entity_names_count |-> Len(entity_cache.data),
         entity_names_valid |->
             /\ entity_cache.last_refresh # NoTime
             /\ now <= entity_cache.last_refresh + entity_cache.ttl_seconds,
         entity_names_last_refresh |-> entity_cache.last_refresh,
         query_cache_count |-> Len(cache_data.query_cache),
         query_cache_max_size |-> MAX_QUERY_CACHE_SIZE]

GetStats(t) ==
    /\ pc[t] = "idle"
    /\ LockFree
    /\ lock' = t
    /\ frame' = [frame EXCEPT ![t] = [NoFrame EXCEPT !.op = "get_stats"]]
    /\ ret' = [ret EXCEPT ![t] = Returned(Stats)]
    /\ pc' = [pc EXCEPT ![t] = "done"]
    /\ UNCHANGED <<now, cache_data, MAX_QUERY_CACHE_SIZE, disk, fs_writable, recency,
                   inserted>>
    /\ UNCHANGED <<sweeps, constructed>>
    /\ UNCHANGED detector_vars

(***************************************************************************)
(* Leaving `with self.lock` (by return or by the re-raised exception)      *)
(* releases the lock; the caller then has the outcome.  The return from    *)
(* the cache_entity_names call of line 98 resumes get_entity_names at      *)
(* line 105.                                                               *)
(***************************************************************************)
Return(t) ==
    /\ pc[t] = "done"
    /\ lock' = NoThread
    /\ IF frame[t].caller = "get_entity_names"
       THEN /\ pc' = [pc EXCEPT ![t] = "gen_return"]
            /\ frame' = [frame EXCEPT ![t].caller = ""]
       ELSE /\ pc' = [pc EXCEPT ![t] = "idle"]
            /\ frame' = [frame EXCEPT ![t] = NoFrame]
    /\ ret' = [ret EXCEPT ![t] = NoRet]
    /\ UNCHANGED <<now, cache_data, MAX_QUERY_CACHE_SIZE, disk, fs_writable, recency,
                   inserted>>
    /\ UNCHANGED <<sweeps, constructed>>
    /\ UNCHANGED detector_vars

(***************************************************************************)
(* __init__ and _load_cache: a fresh instance on the same storage location *)
(***************************************************************************)
\* JSON objects of the wrong shape: without the two members; an entity_names
\* member without ttl_seconds; one without last_refresh; a query entry without
\* timestamp and ttl_seconds
WrongShapeDocs ==
    {[version |-> 1],
     [entity_names |-> [data |-> <<"Project">>, last_refresh |-> NoTime]],
     [entity_names |-> [data |-> <<"Project">>]],
     [query_cache |-> <<[key |-> HashQuery("q0"), result |-> "r1", query |-> "q0"]>>]}

DamagedDocs == {NoFile, Unparsable} \cup WrongShapeDocs

\* lines 294-299: the members of the document replace the defaults of __init__
Restored(doc) ==
    [entity_names |->
         IF "entity_names" \in DOMAIN doc THEN doc.entity_names ELSE EmptySlot,
     query_cache |->
         IF "query_cache" \in DOMAIN doc THEN doc.query_cache ELSE << >>]

\* clear_expired, called at line 302, raises KeyError at line 206, 208, 218 or 219
SweepRaises(data) ==
    \/ "last_refresh" \notin DOMAIN data.entity_names
    \/ /\ data.entity_names.last_refresh # NoTime
       /\ "ttl_seconds" \notin DOMAIN data.entity_names
    \/ \E i \in 1..Len(data.query_cache) :
           ~({"timestamp", "ttl_seconds"} \subseteq DOMAIN data.query_cache[i])

\* mutant of SlotStale: the slot counts as stale at last_refresh + ttl already
SlotStaleAtBoundary(slot, t) ==
    /\ slot.last_refresh # NoTime
    /\ t >= slot.last_refresh + slot.ttl_seconds

\* lines 206-210
SlotStale(slot, t) ==
    /\ slot.last_refresh # NoTime
    /\ Expired(slot.last_refresh, slot.ttl_seconds, t)

\* lines 215-227 only: the expired entries are deleted, the slot is kept
SweptQueriesOnly(data, t) ==
    [entity_names |-> data.entity_names,
     query_cache |-> SelectSeq(data.query_cache, LAMBDA e : ~EntryExpired(e, t))]

\* lines 205-227 as _load_cache runs them: a stale slot is reset, the expired
\* entries are deleted
Swept(data, t) ==
    [entity_names |->
         IF SlotStale(data.entity_names, t)
         THEN [data.entity_names EXCEPT !.data = << >>, !.last_refresh = NoTime]
         ELSE data.entity_names,
     query_cache |-> SelectSeq(data.query_cache, LAMBDA e : ~EntryExpired(e, t))]

\* lines 286-314: no file leaves the defaults of __init__; an exception of
\* json.load or of clear_expired gives the empty cache of lines 307-314
LoadCache(doc, t) ==
    IF doc = NoFile THEN EmptyCache
    ELSE IF doc = Unparsable THEN EmptyCache
    ELSE IF SweepRaises(Restored(doc)) THEN EmptyCache
    ELSE Swept(Restored(doc), t)

\* lines 229-230 within the load: clear_expired saves when it removed something
LoadSaves(doc, t) ==
    /\ doc \notin {NoFile, Unparsable}
    /\ ~SweepRaises(Restored(doc))
    /\ Swept(Restored(doc), t) # Restored(doc)

\* MemoryCache(cache_path) while no call of the previous instance is in
\* progress: the new instance replaces the previous one
Construct ==
    /\ \A t \in Threads : pc[t] = "idle"
    /\ constructed < MaxInstances
    /\ constructed' = constructed + 1
    /\ cache_data' = LoadCache(disk, now)
    /\ disk' = IF LoadSaves(disk, now) THEN SaveCache(cache_data') ELSE disk
    /\ lock' = NoThread
    /\ recency' = KeySeq(cache_data'.query_cache)
    /\ inserted' = EndRun(inserted)
    /\ sweeps' = Written(sweeps)
    /\ UNCHANGED <<now, MAX_QUERY_CACHE_SIZE, fs_writable, pc, frame, ret>>
    /\ UNCHANGED detector_vars

\* the file is removed or overwritten from outside before an instance is
\* constructed on it
Damage(doc) ==
    /\ \A t \in Threads : pc[t] = "idle"
    /\ constructed < MaxInstances
    /\ disk # doc
    /\ disk' = doc
    /\ UNCHANGED <<now, cache_data, MAX_QUERY_CACHE_SIZE, fs_writable, lock, pc,
                   frame, ret, recency, inserted, sweeps, constructed>>
    /\ UNCHANGED detector_vars

(***************************************************************************)
(* get_cache (lines 336-346).  It takes no lock.  A call reads the global  *)
(* at line 344, constructs an instance and stores it at line 345 if the    *)
(* global was None, and reads the global again for the return at line 346; *)
(* another thread can run between any two of these steps (the constructor  *)
(* reads and writes files).  cache_data is the state of the instance       *)
(* constructed last.                                                       *)
(***************************************************************************)
\* line 344: if _cache_instance is None
GetCache(t) ==
    /\ pc[t] = "idle"
    /\ frame' = [frame EXCEPT ![t] = [NoFrame EXCEPT !.op = "get_cache"]]
    /\ pc' = [pc EXCEPT ![t] =
           IF _cache_instance = NoInstance THEN "gc_construct" ELSE "gc_return"]
    /\ UNCHANGED <<now, cache_data, MAX_QUERY_CACHE_SIZE, disk, fs_writable, lock,
                   ret, recency, inserted, sweeps, constructed>>
    /\ UNCHANGED detector_vars

\* line 345, right-hand side: MemoryCache()
GcConstruct(t) ==
    /\ pc[t] = "gc_construct"
    /\ constructed' = constructed + 1
    /\ frame' = [frame EXCEPT ![t].instance = Instance(constructed')]
    /\ cache_data' = LoadCache(disk, now)
    /\ disk' = IF LoadSaves(disk, now) THEN SaveCache(cache_data') ELSE disk
    /\ recency' = KeySeq(cache_data'.query_cache)
    /\ inserted' = EndRun(inserted)
    /\ sweeps' = Written(sweeps)
    /\ pc' = [pc EXCEPT ![t] = "gc_store"]
    /\ UNCHANGED <<now, MAX_QUERY_CACHE_SIZE, fs_writable, lock, ret>>
    /\ UNCHANGED detector_vars

\* line 345: the new instance is stored in the global
GcStore(t) ==
    /\ pc[t] = "gc_store"
    /\ _cache_instance' = frame[t].instance
    /\ pc' = [pc EXCEPT ![t] = "gc_return"]
    /\ UNCHANGED <<now, cache_data, MAX_QUERY_CACHE_SIZE, disk, fs_writable, lock,
                   frame, ret, recency, inserted, sweeps, constructed>>
    /\ UNCHANGED <<token_vars, emd_vars, keyword_vars, project_vars,
                   registry_vars>>

\* line 346: return _cache_instance
GcReturn(t) ==
    /\ pc[t] = "gc_return"
    /\ ret' = [ret EXCEPT ![t] = Returned(_cache_instance)]
    /\ pc' = [pc EXCEPT ![t] = "gc_done"]
    /\ UNCHANGED <<now, cache_data, MAX_QUERY_CACHE_SIZE, disk, fs_writable, lock,
                   frame, recency, inserted, sweeps, constructed>>
    /\ UNCHANGED detector_vars

\* the caller has the instance; the thread is free for its next call
GcEnd(t) ==
    /\ pc[t] = "gc_done"
    /\ pc' = [pc EXCEPT ![t] = "idle"]
    /\ frame' = [frame EXCEPT ![t] = NoFrame]
    /\ ret' = [ret EXCEPT ![t] = NoRet]
    /\ UNCHANGED <<now, cache_data, MAX_QUERY_CACHE_SIZE, disk, fs_writable, lock,
                   recency, inserted, sweeps, constructed>>
    /\ UNCHANGED detector_vars

\* the wall clock advances
Tick(t) ==
    /\ t > now
    /\ now' = t
    /\ UNCHANGED <<cache_data, MAX_QUERY_CACHE_SIZE, disk, fs_writable, lock, pc,
                   frame, ret, recency,
                   inserted>>
    /\ UNCHANGED <<sweeps, constructed>>
    /\ UNCHANGED detector_vars

(***************************************************************************)
(* TokenThresholdDetector (memory_detectors/token_threshold_detector.py).  *)
(* Confidence is kept in hundredths: 0.9 is 90, 0.8 is 80, 0.7 is 70 and   *)
(* the boost of 0.1 is 10.                                                 *)
(***************************************************************************)
\* max() in the place of min()
Most(a, b) == IF a >= b THEN a ELSE b

\* min(a, b)
Least(a, b) == IF a <= b THEN a ELSE b

\* _calculate_confidence with the boost at an overage of 10000 already
CalculateConfidenceAtBoundary(token_count, threshold) ==
    LET confidence == IF threshold >= 150000 THEN 90
                      ELSE IF threshold >= 100000 THEN 80
                      ELSE 70
        overage == token_count - threshold
    IN  IF overage >= 10000 THEN Least(100, confidence + 10) ELSE confidence

\* lines 111-137
CalculateConfidence(token_count, threshold) ==
    LET confidence == IF threshold >= 150000 THEN 90
                      ELSE IF threshold >= 100000 THEN 80
                      ELSE 70
        overage == token_count - threshold
    IN  IF overage > 10000 THEN Least(100, confidence + 10) ELSE confidence

\* the loop over self.thresholds without the skip of lines 84-85
RECURSIVE FirstReached(_, _, _)
FirstReached(ths, fired, token_count) ==
    IF ths = << >> THEN << >>
    ELSE IF token_count >= Head(ths) THEN <<Head(ths)>>
    ELSE FirstReached(Tail(ths), fired, token_count)

\* lines 82-88: the loop over self.thresholds; << >> when it runs to its end,
\* <<threshold>> when it stops at a threshold
RECURSIVE FirstCrossed(_, _, _)
FirstCrossed(ths, fired, token_count) ==
    IF ths = << >> THEN << >>
    ELSE IF Head(ths) \in fired THEN FirstCrossed(Tail(ths), fired, token_count)
    ELSE IF token_count >= Head(ths) THEN <<Head(ths)>>
    ELSE FirstCrossed(Tail(ths), fired, token_count)

\* the fired-set left as it is
MarkNothing(fired, threshold) == fired

\* line 90: self._triggered.add(threshold)
Mark(fired, threshold) == fired \cup {threshold}

\* lines 96-107 (the reason string is left out)
TriggerResult(confidence, threshold, token_count) ==
    [kind |-> "trigger",
     triggered |-> TRUE,
     confidence |-> confidence,
     estimated_tokens |-> 175,
     query_type |-> "threshold_check",
     threshold |-> threshold,
     current_count |-> token_count,
     search_terms |-> <<"pending", "incomplete", "TODO", "in progress">>]

\* lines 75-109 on a detector with the thresholds ths and the fired-set fired:
\* the fired-set it leaves and what it returns
EvaluateOn(ths, fired, context) ==
    LET token_count == Get(context, "token_count", 0)
        crossed == IF token_count <= 0 THEN << >>
                   ELSE FirstCrossed(ths, fired, token_count)
    IN  IF crossed = << >>
        THEN [triggered |-> fired, trigger |-> Absent]
        ELSE [triggered |-> Mark(fired, crossed[1]),
              trigger |-> TriggerResult(
                              CalculateConfidence(token_count, crossed[1]),
                              crossed[1], token_count)]

\* evaluate(prompt, context); the prompt is not used
Evaluate(context) ==
    LET after == EvaluateOn(thresholds, triggered, context)
    IN  /\ Len(reported) < MaxReports
        /\ triggered' = after.triggered
        /\ trigger' = after.trigger
        /\ evaluated' = context
        /\ reported' = IF after.trigger = Absent THEN reported
                       ELSE Append(reported, after.trigger.threshold)
        /\ fresh' = EvaluateOn(thresholds, fresh.triggered, context)
        /\ UNCHANGED <<thresholds, before_reset>>
        /\ UNCHANGED <<emd_vars, keyword_vars, project_vars, registry_vars, module_vars>>
        /\ UNCHANGED <<now, cache_data, MAX_QUERY_CACHE_SIZE, disk, fs_writable,
                       lock, pc, frame, ret, recency, inserted, sweeps,
                       constructed>>

\* the fired-set kept
Kept(fired) == fired

\* line 146: self._triggered.clear()
Cleared(fired) == {}

\* reset_state()
ResetState ==
    /\ triggered' = Cleared(triggered)
    /\ before_reset' = reported
    /\ reported' = << >>
    /\ fresh' = Constructed
    /\ UNCHANGED <<thresholds, trigger, evaluated>>
    /\ UNCHANGED <<emd_vars, keyword_vars, project_vars, registry_vars, module_vars>>
    /\ UNCHANGED <<now, cache_data, MAX_QUERY_CACHE_SIZE, disk, fs_writable,
                   lock, pc, frame, ret, recency, inserted, sweeps,
                   constructed>>

(***************************************************************************)
(* EntityMentionDetector (memory_detectors/entity_mention_detector.py).    *)
(* A text is a string; Fence stands for three backticks.  A score is a     *)
(* fraction <<numerator, denominator>>; a confidence is in hundredths.     *)
(***************************************************************************)
Fence == "~~~"

\* prompts: too short; an entity named; no entity named; a plural and a second
\* entity; fenced; dense in special characters; indented by four spaces
Prompts ==
    {"hi",
     "Tell me about Project",
     "What is the weather today?",
     "Which projects does the user own?",
     Fence \o "python Project",
     "f(x);{a[0]};",
     "    Project list"}

\* config.get('min_entity_length', 2), config.get('partial_match_threshold', 0.7)
min_entity_length == 2
partial_match_threshold == <<7, 10>>

At(s, i) == SubSeq(s, i, i)
From(s, i) == SubSeq(s, i, Len(s))
Has(s, c) == \E i \in 1..Len(s) : At(s, i) = c

UpperCase == "ABCDEFGHIJKLMNOPQRSTUVWXYZ"
LowerCase == "abcdefghijklmnopqrstuvwxyz"
DigitsAndUnderscore == "0123456789_"

\* str.lower()
LowerChar(c) ==
    IF Has(UpperCase, c)
    THEN At(LowerCase, CHOOSE i \in 1..Len(UpperCase) : At(UpperCase, i) = c)
    ELSE c

RECURSIVE Lower(_)
Lower(s) == IF Len(s) = 0 THEN s ELSE LowerChar(At(s, 1)) \o Lower(From(s, 2))

\* \w and \s of the re module
IsWordChar(c) == Has(UpperCase, c) \/ Has(LowerCase, c) \/ Has(DigitsAndUnderscore, c)
IsSpace(c) == c \in {" ", "\n", "\t"}

\* str.strip()
RECURSIVE LStrip(_)
LStrip(s) == IF Len(s) > 0 /\ IsSpace(At(s, 1)) THEN LStrip(From(s, 2)) ELSE s

RECURSIVE RStrip(_)
RStrip(s) ==
    IF Len(s) > 0 /\ IsSpace(At(s, Len(s))) THEN RStrip(SubSeq(s, 1, Len(s) - 1)) ELSE s

Strip(s) == RStrip(LStrip(s))

\* str.startswith(), `a in b`
StartsWith(s, prefix) == Len(s) >= Len(prefix) /\ SubSeq(s, 1, Len(prefix)) = prefix
IsSubstring(a, b) ==
    \E i \in 1..(Len(b) - Len(a) + 1) : SubSeq(b, i, i + Len(a) - 1) = a

\* lines 286-305
IsCodeBlock(text) ==
    LET special_chars == Cardinality({i \in 1..Len(text) : Has("(){}<>[];:,.", At(text, i))})
    IN  \/ StartsWith(Strip(text), Fence)
        \/ StartsWith(Strip(text), "    ")
        \/ Len(text) > 0 /\ 10 * special_chars > 3 * Len(text)

\* fractions
Leq(a, b) == a[1] * b[2] <= b[1] * a[2]
Plus(a, b) == <<a[1] * b[2] + b[1] * a[2], a[2] * b[2]>>
Times(a, b) == <<a[1] * b[1], a[2] * b[2]>>
Greatest(S) == CHOOSE r \in S : \A q \in S : Leq(q, r)
One == <<1, 1>>
Zero == <<0, 1>>
\* min(1.0, x)
AtMostOne(x) == IF Leq(x, One) THEN x ELSE One
\* round(x, 2), in hundredths
Round2(x) == (200 * x[1] + x[2]) \div (2 * x[2])

\* re.findall(r'\b\w+\b', text): the maximal runs of word characters
RunEnd(text, i) ==
    CHOOSE j \in i..Len(text) :
        /\ \A k \in i..j : IsWordChar(At(text, k))
        /\ j = Len(text) \/ ~IsWordChar(At(text, j + 1))

RECURSIVE FindAllWords(_, _)
FindAllWords(text, i) ==
    IF i > Len(text) THEN << >>
    ELSE IF IsWordChar(At(text, i))
    THEN <<SubSeq(text, i, RunEnd(text, i))>> \o FindAllWords(text, RunEnd(text, i) + 1)
    ELSE FindAllWords(text, i + 1)

\* lines 191-193
LongEnough(w) == Len(w) >= min_entity_length
ExtractWords(text) == SelectSeq(FindAllWords(text, 1), LongEnough)

\* \b before the character at position i
WordCharAt(text, i) == i \in 1..Len(text) /\ IsWordChar(At(text, i))
Boundary(text, i) == WordCharAt(text, i - 1) # WordCharAt(text, i)

\* lines 206-208: re.search(r'\b' + re.escape(word) + r'\b', text)
ContainsWord(text, word) ==
    \E i \in 1..(Len(text) - Len(word) + 1) :
        /\ SubSeq(text, i, i + Len(word) - 1) = word
        /\ Boundary(text, i)
        /\ Boundary(text, i + Len(word))

\* lines 223-245
FuzzyMatch(entity_name, prompt_words) ==
    LET entity_words == ExtractWords(entity_name)
        similarities ==
            {<<IF Len(entity_words[e]) <= Len(prompt_words[p])
               THEN Len(entity_words[e]) ELSE Len(prompt_words[p]),
               IF Len(entity_words[e]) <= Len(prompt_words[p])
               THEN Len(prompt_words[p]) ELSE Len(entity_words[e])>> :
                <<e, p>> \in {<<e, p>> \in (DOMAIN entity_words) \X (DOMAIN prompt_words) :
                                \/ IsSubstring(entity_words[e], prompt_words[p])
                                \/ IsSubstring(prompt_words[p], entity_words[e])}}
        max_substring_score == Greatest(similarities \cup {Zero})
        entity_word_set == Range(entity_words)
        overlap == Cardinality(entity_word_set \cap Range(prompt_words))
        overlap_score == <<overlap, Cardinality(entity_word_set)>>
    IN  IF entity_words = << >> \/ prompt_words = << >> THEN Zero
        ELSE Greatest({max_substring_score, overlap_score})

\* lines 150-173: the match of one entity name, if any
MatchOf(prompt_lower, prompt_words, entity_name) ==
    LET entity_lower == Lower(entity_name)
        partial_score == FuzzyMatch(entity_lower, prompt_words)
    IN  IF Len(entity_name) < min_entity_length THEN << >>
        ELSE IF ContainsWord(prompt_lower, entity_lower)
        THEN <<[name |-> entity_name, match_type |-> "exact", match_score |-> One]>>
        ELSE IF Leq(partial_match_threshold, partial_score)
        THEN <<[name |-> entity_name, match_type |-> "partial",
                match_score |-> partial_score]>>
        ELSE << >>

\* line 176 left out: the matches in the order of the entity names
SortByScoreSkipped(matches) == matches

\* line 176: matches.sort(key=match_score, reverse=True), a stable sort
RECURSIVE SortByScore(_)
SortByScore(matches) ==
    IF matches = << >> THEN << >>
    ELSE LET rest == SortByScore(SubSeq(matches, 1, Len(matches) - 1))
             m == matches[Len(matches)]
             before == Cardinality({i \in DOMAIN rest :
                                      Leq(m.match_score, rest[i].match_score)})
         IN  SubSeq(rest, 1, before) \o <<m>> \o SubSeq(rest, before + 1, Len(rest))

RECURSIVE AllMatches(_, _, _)
AllMatches(prompt_lower, prompt_words, entity_names) ==
    IF entity_names = << >> THEN << >>
    ELSE MatchOf(prompt_lower, prompt_words, Head(entity_names))
         \o AllMatches(prompt_lower, prompt_words, Tail(entity_names))

\* lines 144-179
FindEntityMentions(prompt, entity_names) ==
    LET prompt_lower == Lower(prompt)
        matches == SortByScore(AllMatches(prompt_lower, ExtractWords(prompt_lower),
                                          entity_names))
    IN  SubSeq(matches, 1, IF Len(matches) < 10 THEN Len(matches) ELSE 10)

RECURSIVE SumOfScores(_)
SumOfScores(matches) ==
    IF matches = << >> THEN Zero
    ELSE Plus(Head(matches).match_score, SumOfScores(Tail(matches)))

\* lines 258-284, in hundredths
EmdCalculateConfidence(matched_entities, prompt) ==
    LET exact_matches == SelectSeq(matched_entities, LAMBDA e : e.match_type = "exact")
        base == IF Len(exact_matches) > 1 THEN <<9, 10>>
                ELSE IF Len(exact_matches) > 0 THEN <<8, 10>>
                ELSE <<6, 10>>
        avg_score == Times(SumOfScores(matched_entities), <<1, Len(matched_entities)>>)
        scaled == AtMostOne(Times(base, avg_score))
        asked == IF Has(prompt, "?") THEN AtMostOne(Plus(scaled, <<5, 100>>)) ELSE scaled
        long == IF Len(prompt) > 50 THEN AtMostOne(Plus(asked, <<5, 100>>)) ELSE asked
    IN  IF matched_entities = << >> THEN 0 ELSE Round2(long)

\* lines 119-128 (the reason string is left out)
EntityTrigger(matched_entities, prompt) ==
    [kind |-> "trigger",
     triggered |-> TRUE,
     confidence |-> EmdCalculateConfidence(matched_entities, prompt),
     estimated_tokens |-> 100,
     query_type |-> "entity_details",
     names |-> [i \in DOMAIN matched_entities |-> matched_entities[i].name]]

\* how evaluate ends: it returns a value, or the exception of the cache call
\* leaves it (evaluate has no handler around line 97)
EmdReturned(v) == [kind |-> "return", val |-> v]
EmdRaised == [kind |-> "raise"]

\* lines 99-128: what evaluate returns for the names the cache returned
AfterNames(prompt, entity_names) ==
    LET matched_entities == FindEntityMentions(prompt, entity_names)
    IN  IF entity_names = << >> THEN EmdReturned(Absent)
        ELSE IF matched_entities = << >> THEN EmdReturned(Absent)
        ELSE EmdReturned(EntityTrigger(matched_entities, prompt))

\* set_memory_client(client)
SetMemoryClient(client) ==
    /\ emd.pc = "idle"
    /\ _memory_client' = client
    /\ UNCHANGED <<emd, token_vars, keyword_vars, project_vars, registry_vars, module_vars>>
    /\ UNCHANGED <<now, cache_data, MAX_QUERY_CACHE_SIZE, disk, fs_writable,
                   lock, pc, frame, ret, recency, inserted, sweeps,
                   constructed>>

\* lines 88-94 of evaluate, called by thread t: the prompt is rejected, or
\* evaluate goes on to line 97
EmdEvaluate(t, prompt) ==
    /\ emd.pc = "idle"
    /\ pc[t] = "idle"
    /\ emd' = IF Len(Strip(prompt)) < 3 \/ IsCodeBlock(prompt)
              THEN [pc |-> "idle", prompt |-> prompt, ret |-> EmdReturned(Absent)]
              ELSE [pc |-> "names", prompt |-> prompt, ret |-> NotEvaluated]
    /\ UNCHANGED <<_memory_client, token_vars, keyword_vars, project_vars,
                   registry_vars, module_vars>>
    /\ UNCHANGED <<now, cache_data, MAX_QUERY_CACHE_SIZE, disk, fs_writable,
                   lock, pc, frame, ret, recency, inserted, sweeps,
                   constructed>>

\* line 97: self.cache.get_entity_names(self._memory_client)
EmdGetEntityNames(t) ==
    /\ emd.pc = "names"
    /\ GetEntityNames(t, _memory_client, FALSE)

\* lines 97-128: the cache call has ended; its lock is released, and evaluate
\* returns, or ends with the exception the cache call raised
EmdResume(t) ==
    /\ emd.pc = "names"
    /\ pc[t] = "done"
    /\ frame[t].caller # "get_entity_names"
    /\ lock' = NoThread
    /\ pc' = [pc EXCEPT ![t] = "idle"]
    /\ frame' = [frame EXCEPT ![t] = NoFrame]
    /\ ret' = [ret EXCEPT ![t] = NoRet]
    /\ emd' = [emd EXCEPT !.pc = "idle",
                          !.ret = IF ret[t].kind = "raise" THEN EmdRaised
                                  ELSE AfterNames(emd.prompt, ret[t].val)]
    /\ UNCHANGED <<_memory_client, token_vars, keyword_vars, project_vars,
                   registry_vars, module_vars>>
    /\ UNCHANGED <<now, cache_data, MAX_QUERY_CACHE_SIZE, disk, fs_writable,
                   recency, inserted, sweeps, constructed>>

(***************************************************************************)
(* KeywordDetector (memory_detectors/keyword_detector.py).  A pattern      *)
(* r"\b(a|b\s+c)\b" is the sequence of its alternatives, each the sequence *)
(* of its words: << <<"a">>, <<"b", "c">> >>.  The query string built by   *)
(* _extract_query_terms (lines 155-210) reads the prompt only and is not   *)
(* part of the result record.                                              *)
(***************************************************************************)
\* prompts: too short; each default category; a question; longer than 50
\* characters; fenced, with and without leading blanks; a keyword inside a
\* longer word; no keyword; a word of the caller's category; dense in special
\* characters; indented by four spaces
KeywordPrompts ==
    {"bug",
     "Do you remember the login bug?",
     "Do you remember why we moved the session store to Redis?",
     "Why  did we choose Redis",
     "The design of the cache",
     "fix it now",
     "Why did we pick this approach for the session store here?",
     "The implementation of the session store follows the plan",
     Fence \o "remember the bug",
     "  " \o Fence \o "python recall",
     "I remembered nothing",
     "What is the weather today?",
     "Roll  out the release",
     "f(x);{a[0]};bug",
     "    remember this"}

\* r"\s+" from position i: the position after the run of blanks, 0 if no run
RECURSIVE SkipSpaces(_, _)
SkipSpaces(text, i) ==
    IF i <= Len(text) /\ IsSpace(At(text, i)) THEN SkipSpaces(text, i + 1) ELSE i

\* the words of one alternative from position i: the position of the last
\* character matched, 0 if they do not match there
RECURSIVE WordsEnd(_, _, _)
WordsEnd(text, i, words) ==
    LET j == i + Len(words[1]) - 1
    IN  IF j > Len(text) \/ SubSeq(text, i, j) # words[1] THEN 0
        ELSE IF Len(words) = 1 THEN j
        ELSE IF SkipSpaces(text, j + 1) = j + 1 THEN 0
        ELSE WordsEnd(text, SkipSpaces(text, j + 1), Tail(words))

\* \b(alternative)\b at position i
AlternativeEnd(text, i, words) ==
    LET j == WordsEnd(text, i, words)
    IN  IF j # 0 /\ Boundary(text, i) /\ Boundary(text, j + 1) THEN j ELSE 0

NoMatch == [start |-> 0]

\* pattern.search(prompt) of a pattern compiled with re.IGNORECASE: the
\* leftmost match, by the first alternative that matches there
Search(pattern, prompt) ==
    LET text == Lower(prompt)
        MatchesAt(i) == {a \in 1..Len(pattern) : AlternativeEnd(text, i, pattern[a]) # 0}
        starts == {i \in 1..Len(text) : MatchesAt(i) # {}}
    IN  IF starts = {} THEN NoMatch
        ELSE LET start == CHOOSE i \in starts : \A k \in starts : i <= k
                 a == CHOOSE b \in MatchesAt(start) : \A c \in MatchesAt(start) : b <= c
                 end == AlternativeEnd(text, start, pattern[a])
             IN  [start |-> start, end |-> end, group |-> SubSeq(prompt, start, end)]

\* lines 224-236
KeywordBaseConfidence(category) ==
    IF category = "memory" THEN 90
    ELSE IF category = "decision" THEN 85
    ELSE IF category \in {"architecture", "problem"} THEN 75
    ELSE 70

\* lines 224-246
KeywordCalculateConfidence(category, prompt) ==
    LET base == KeywordBaseConfidence(category)
        asked == IF Has(prompt, "?") THEN Least(100, base + 10) ELSE base
    IN  IF Len(prompt) > 50 THEN Least(100, asked + 5) ELSE asked

\* lines 119-130
KeywordTrigger(category, match, prompt) ==
    [kind |-> "trigger",
     triggered |-> TRUE,
     confidence |-> KeywordCalculateConfidence(category, prompt),
     estimated_tokens |-> 150,
     query_type |-> "keyword_search",
     category |-> category,
     matched_pattern |-> match.group]

\* lines 105-132: the first pattern of the first category that matches
RECURSIVE ScanPatterns(_, _, _)
ScanPatterns(category, patterns, prompt) ==
    IF patterns = << >> THEN Absent
    ELSE IF Search(patterns[1], prompt) # NoMatch
    THEN KeywordTrigger(category, Search(patterns[1], prompt), prompt)
    ELSE ScanPatterns(category, Tail(patterns), prompt)

RECURSIVE ScanCategories(_, _)
ScanCategories(compiled_patterns, prompt) ==
    IF compiled_patterns = << >> THEN Absent
    ELSE IF ScanPatterns(compiled_patterns[1].category,
                         compiled_patterns[1].patterns, prompt) # Absent
    THEN ScanPatterns(compiled_patterns[1].category,
                      compiled_patterns[1].patterns, prompt)
    ELSE ScanCategories(Tail(compiled_patterns), prompt)

\* keyword_detector.py lines 134-153 without the test for the fence
KeywordIsCodeBlockByDensity(text) ==
    LET special_chars == Cardinality({i \in 1..Len(text) : Has("(){}<>[];:,.", At(text, i))})
    IN  \/ StartsWith(Strip(text), "    ")
        \/ Len(text) > 0 /\ 10 * special_chars > 3 * Len(text)

\* keyword_detector.py lines 134-153
KeywordIsCodeBlock(text) ==
    LET special_chars == Cardinality({i \in 1..Len(text) : Has("(){}<>[];:,.", At(text, i))})
    IN  \/ StartsWith(Strip(text), Fence)
        \/ StartsWith(Strip(text), "    ")
        \/ Len(text) > 0 /\ 10 * special_chars > 3 * Len(text)

\* lines 97-132
KeywordEvaluateOn(compiled_patterns, prompt) ==
    IF Len(Strip(prompt)) < 5 THEN Absent
    ELSE IF KeywordIsCodeBlock(prompt) THEN Absent
    ELSE ScanCategories(compiled_patterns, prompt)

\* evaluate(prompt, context); the context is not used
KeywordEvaluate(prompt) ==
    /\ kwd' = [prompt |-> prompt, ret |-> KeywordEvaluateOn(CompiledPatterns(keywords), prompt)]
    /\ UNCHANGED <<keywords, token_vars, emd_vars, project_vars, registry_vars, module_vars>>
    /\ UNCHANGED <<now, cache_data, MAX_QUERY_CACHE_SIZE, disk, fs_writable,
                   lock, pc, frame, ret, recency, inserted, sweeps,
                   constructed>>

(***************************************************************************)
(* ProjectSwitchDetector (memory_detectors/project_switch_detector.py).    *)
(* The project tracker is the collaborator of spec.md section 6: it holds  *)
(* the active state a set_active_project call stored, and                  *)
(* has_uncommitted_changes answers either way.                             *)
(***************************************************************************)
\* str.split('/'): the parts of a path between its slashes
RECURSIVE Parts(_, _)
Parts(path, part) ==
    IF Len(path) = 0 THEN <<part>>
    ELSE IF At(path, 1) = "/" THEN <<part>> \o Parts(From(path, 2), "")
    ELSE Parts(From(path, 2), part \o At(path, 1))

\* the parts with "", "." and ".." resolved
RECURSIVE Collapse(_, _)
Collapse(parts, kept) ==
    IF parts = << >> THEN kept
    ELSE IF parts[1] \in {"", "."} THEN Collapse(Tail(parts), kept)
    ELSE IF parts[1] = ".."
    THEN Collapse(Tail(parts), IF kept = << >> THEN kept
                               ELSE SubSeq(kept, 1, Len(kept) - 1))
    ELSE Collapse(Tail(parts), Append(kept, parts[1]))

RECURSIVE Joined(_)
Joined(parts) == IF parts = << >> THEN "" ELSE "/" \o parts[1] \o Joined(Tail(parts))

\* str(Path(path).resolve()), on a file system without symbolic links
Resolve(path) ==
    LET absolute == IF StartsWith(path, "/") THEN path ELSE Cwd \o "/" \o path
        parts == Collapse(Parts(absolute, ""), << >>)
    IN  IF parts = << >> THEN "/" ELSE Joined(parts)

\* str.rstrip(chars): trailing characters of the set `chars` are removed
RECURSIVE RStripChars(_, _)
RStripChars(s, chars) ==
    IF Len(s) > 0 /\ Has(chars, At(s, Len(s)))
    THEN RStripChars(SubSeq(s, 1, Len(s) - 1), chars)
    ELSE s

\* str.replace(old, new)
RECURSIVE Replace(_, _, _)
Replace(s, old, new) ==
    IF Len(s) = 0 THEN s
    ELSE IF StartsWith(s, old) THEN new \o Replace(From(s, Len(old) + 1), old, new)
    ELSE At(s, 1) \o Replace(From(s, 2), old, new)

\* lines 163-164
CleanRemote(remote) == Replace(RStripChars(remote, ".git"), "http://", "https://")

NoSwitch == "None"

\* lines 144-193 with the remote compared before the path
DetectSwitchTypeRemoteFirst(current, previous, detect_branch, majors) ==
    LET current_path == Get(current, "absolute_path", "")
        previous_path == Get(previous, "absolute_path", "")
        current_remote == Get(current, "git_remote_url", "")
        previous_remote == Get(previous, "git_remote_url", "")
    IN  IF /\ current_remote # "" /\ previous_remote # ""
           /\ CleanRemote(current_remote) # CleanRemote(previous_remote)
        THEN "remote"
        ELSE IF /\ current_path # "" /\ previous_path # ""
                /\ Resolve(current_path) # Resolve(previous_path)
        THEN "directory"
        ELSE NoSwitch

\* lines 144-193 with the branch compared before the path and the remote
DetectSwitchTypeBranchFirst(current, previous, detect_branch, majors) ==
    LET current_path == Get(current, "absolute_path", "")
        previous_path == Get(previous, "absolute_path", "")
        current_remote == Get(current, "git_remote_url", "")
        previous_remote == Get(previous, "git_remote_url", "")
        current_branch == Get(current, "git_branch", "")
        previous_branch == Get(previous, "git_branch", "")
    IN  IF /\ detect_branch
           /\ current_branch # "" /\ previous_branch # ""
           /\ current_branch # previous_branch
           /\ \/ current_branch \in Range(majors)
              \/ previous_branch \in Range(majors)
        THEN "branch"
        ELSE IF /\ current_path # "" /\ previous_path # ""
                /\ Resolve(current_path) # Resolve(previous_path)
        THEN "directory"
        ELSE IF /\ current_remote # "" /\ previous_remote # ""
                /\ CleanRemote(current_remote) # CleanRemote(previous_remote)
        THEN "remote"
        ELSE NoSwitch

\* lines 144-193 with every change of branch reported, major or not
DetectSwitchTypeAnyBranch(current, previous, detect_branch, majors) ==
    LET current_path == Get(current, "absolute_path", "")
        previous_path == Get(previous, "absolute_path", "")
        current_remote == Get(current, "git_remote_url", "")
        previous_remote == Get(previous, "git_remote_url", "")
        current_branch == Get(current, "git_branch", "")
        previous_branch == Get(previous, "git_branch", "")
    IN  IF /\ current_path # "" /\ previous_path # ""
           /\ Resolve(current_path) # Resolve(previous_path)
        THEN "directory"
        ELSE IF /\ current_remote # "" /\ previous_remote # ""
                /\ CleanRemote(current_remote) # CleanRemote(previous_remote)
        THEN "remote"
        ELSE IF /\ detect_branch
                /\ current_branch # "" /\ previous_branch # ""
                /\ current_branch # previous_branch
        THEN "branch"
        ELSE NoSwitch

\* lines 144-193: the switch type, or None
DetectSwitchType(current, previous, detect_branch, majors) ==
    LET current_path == Get(current, "absolute_path", "")
        previous_path == Get(previous, "absolute_path", "")
        current_remote == Get(current, "git_remote_url", "")
        previous_remote == Get(previous, "git_remote_url", "")
        current_branch == Get(current, "git_branch", "")
        previous_branch == Get(previous, "git_branch", "")
    IN  IF /\ current_path # "" /\ previous_path # ""
           /\ Resolve(current_path) # Resolve(previous_path)
        THEN "directory"
        ELSE IF /\ current_remote # "" /\ previous_remote # ""
                /\ CleanRemote(current_remote) # CleanRemote(previous_remote)
        THEN "remote"
        ELSE IF /\ detect_branch
                /\ current_branch # "" /\ previous_branch # ""
                /\ current_branch # previous_branch
                /\ \/ current_branch \in Range(majors)
                   \/ previous_branch \in Range(majors)
        THEN "branch"
        ELSE NoSwitch

\* lines 312-326
PsdCalculateConfidence(switch_type, current_project) ==
    LET base == IF switch_type = "directory" THEN 95
                ELSE IF switch_type = "remote" THEN 90
                ELSE IF switch_type = "branch" THEN 75
                ELSE 70
    IN  IF Get(current_project, "git_remote_url", "") # ""
        THEN Least(100, base + 5)
        ELSE base

\* lines 213-237
BuildTriggerResult(current_project, switch_type) ==
    [kind |-> "trigger",
     triggered |-> TRUE,
     confidence |-> PsdCalculateConfidence(switch_type, current_project),
     estimated_tokens |-> 200,
     query_type |-> "project_context",
     project |-> Get(current_project, "name", "Unknown"),
     project_path |-> Get(current_project, "absolute_path", ""),
     git_remote |-> Get(current_project, "git_remote_url", ""),
     branch |-> Get(current_project, "git_branch", ""),
     switch_type |-> switch_type]

\* the tracker left as it was
TrackerKept(active, current_project, uncommitted) == active

\* lines 335-346: the state the tracker holds after _update_tracker_state
UpdateTrackerState(active, current_project, uncommitted) ==
    SetActiveProject(current_project,
                     IF Get(current_project, "absolute_path", "") # ""
                     THEN uncommitted ELSE FALSE)

\* lines 84-123 with the tracker updated only when a switch is reported
PsdEvaluateOnSwitchOnly(active, context, detect_branch, majors, uncommitted) ==
    LET current_project == Get(context, "current_project", EmptyProject)
        active_state == GetActiveProject(active)
        previous_project == Get(active_state, "project", EmptyProject)
        switch_type == DetectSwitchType(current_project, previous_project,
                                        detect_branch, majors)
        updated == UpdateTrackerState(active, current_project, uncommitted)
    IN  IF DOMAIN current_project = {}
        THEN [ret |-> Absent, tracker |-> active]
        ELSE IF active_state = NoActiveProject
        THEN [ret |-> Absent, tracker |-> updated]
        ELSE IF DOMAIN previous_project = {}
        THEN [ret |-> Absent, tracker |-> active]
        ELSE IF switch_type # NoSwitch
        THEN [ret |-> BuildTriggerResult(current_project, switch_type),
              tracker |-> updated]
        ELSE [ret |-> Absent, tracker |-> active]

\* lines 84-123: what evaluate returns and the state it leaves in the tracker
PsdEvaluateOn(active, context, detect_branch, majors, uncommitted) ==
    LET current_project == Get(context, "current_project", EmptyProject)
        active_state == GetActiveProject(active)
        previous_project == Get(active_state, "project", EmptyProject)
        switch_type == DetectSwitchType(current_project, previous_project,
                                        detect_branch, majors)
        updated == UpdateTrackerState(active, current_project, uncommitted)
    IN  IF DOMAIN current_project = {}
        THEN [ret |-> Absent, tracker |-> active]
        ELSE IF active_state = NoActiveProject
        THEN [ret |-> Absent, tracker |-> updated]
        ELSE IF DOMAIN previous_project = {}
        THEN [ret |-> Absent, tracker |-> active]
        ELSE IF switch_type # NoSwitch
        THEN [ret |-> BuildTriggerResult(current_project, switch_type),
              tracker |-> updated]
        ELSE [ret |-> Absent, tracker |-> updated]

\* evaluate(prompt, context); the prompt is not used
PsdEvaluate(context) ==
    \E uncommitted \in BOOLEAN :
        LET after == PsdEvaluateOn(tracker, context, detect_branch_switch,
                                   major_branches, uncommitted)
        IN  /\ tracker' = after.tracker
            /\ psd' = [context |-> context, previous |-> tracker, ret |-> after.ret]
            /\ UNCHANGED <<detect_branch_switch, major_branches>>
            /\ UNCHANGED <<token_vars, emd_vars, keyword_vars, registry_vars, module_vars>>
            /\ UNCHANGED <<now, cache_data, MAX_QUERY_CACHE_SIZE, disk, fs_writable,
                           lock, pc, frame, ret, recency, inserted, sweeps,
                           constructed>>

(***************************************************************************)
(* DetectorRegistry (memory_detectors/__init__.py), as spec.md section 4.2 *)
(* describes it: register adds a detector or replaces the one of the same  *)
(* name, get_enabled_detectors lists the enabled ones by ascending         *)
(* priority.  A detector is its name, priority and enabled flag.           *)
(***************************************************************************)
\* test_integration_simple.py lines 61-82: the four detectors of Test 3
TestDetectors ==
    << [name |-> "project_switch_detector", priority |-> 1, enabled |-> TRUE],
       [name |-> "keyword_detector", priority |-> 2, enabled |-> TRUE],
       [name |-> "entity_mention_detector", priority |-> 3, enabled |-> TRUE],
       [name |-> "token_threshold_detector", priority |-> 4, enabled |-> TRUE] >>

\* the detectors a caller registers: those of Test 3, each with the priority
\* it has there or with the priority of the keyword detector, enabled or not
Registrable ==
    UNION {{[TestDetectors[i] EXCEPT !.priority = p, !.enabled = e] :
               p \in {TestDetectors[i].priority, 2}, e \in BOOLEAN} :
           i \in DOMAIN TestDetectors}

\* get_enabled_detectors has not been called since the latest register
NotListed == [listed |-> FALSE, detectors |-> << >>]

IndexOf(detectors, name) ==
    IF \E i \in DOMAIN detectors : detectors[i].name = name
    THEN CHOOSE i \in DOMAIN detectors : detectors[i].name = name
    ELSE 0

\* register(detector): added, or put in the place of the one it replaces
Registered(detectors, detector) ==
    IF IndexOf(detectors, detector.name) = 0
    THEN Append(detectors, detector)
    ELSE [detectors EXCEPT ![IndexOf(detectors, detector.name)] = detector]

\* the detector goes before the first listed one of a priority not lower
\* than its own
PlaceBeforeEquals(listed, detector) ==
    LET before == SelectSeq(listed, LAMBDA d : d.priority < detector.priority)
        after == SelectSeq(listed, LAMBDA d : d.priority >= detector.priority)
    IN  before \o <<detector>> \o after

\* the detector goes after every listed one of a priority not higher than
\* its own
Place(listed, detector) ==
    LET before == SelectSeq(listed, LAMBDA d : d.priority <= detector.priority)
        after == SelectSeq(listed, LAMBDA d : d.priority > detector.priority)
    IN  before \o <<detector>> \o after

RECURSIVE ByPriority(_, _)
ByPriority(detectors, listed) ==
    IF detectors = << >> THEN listed
    ELSE ByPriority(Tail(detectors), Place(listed, detectors[1]))

IsEnabled(detector) == detector.enabled

\* get_enabled_detectors()
EnabledByPriority(detectors) == ByPriority(SelectSeq(detectors, IsEnabled), << >>)

Register(detector) ==
    /\ _detectors' = Registered(_detectors, detector)
    /\ enabled_detectors' = NotListed
    /\ UNCHANGED <<token_vars, emd_vars, keyword_vars, project_vars, module_vars>>
    /\ UNCHANGED <<now, cache_data, MAX_QUERY_CACHE_SIZE, disk, fs_writable,
                   lock, pc, frame, ret, recency, inserted, sweeps,
                   constructed>>

GetEnabledDetectors ==
    /\ enabled_detectors' = [listed |-> TRUE, detectors |-> EnabledByPriority(_detectors)]
    /\ UNCHANGED _detectors
    /\ UNCHANGED <<token_vars, emd_vars, keyword_vars, project_vars, module_vars>>
    /\ UNCHANGED <<now, cache_data, MAX_QUERY_CACHE_SIZE, disk, fs_writable,
                   lock, pc, frame, ret, recency, inserted, sweeps,
                   constructed>>

(***************************************************************************)
(* Spec: the threads of Threads call every public method of one instance.  *)
(***************************************************************************)
Next ==
    \/ \E t \in Threads, c \in Clients, f \in BOOLEAN : GetEntityNames(t, c, f)
    \/ \E t \in Threads, g \in SmallNameLists : ReadGraph(t, g)
    \/ \E t \in Threads : GenReturn(t)
    \/ \E t \in Threads, n \in SmallNameLists : CacheEntityNames(t, n)
    \/ \E t \in Threads, q \in SmallQueries, r \in OneResult, ttl \in TtlArgs :
           CacheQueryResult(t, q, r, ttl)
    \/ \E t \in Threads : Evict(t)
    \/ \E t \in Threads, q \in SmallQueries : GetCachedQuery(t, q)
    \/ \E t \in Threads : GcqCheck(t)
    \/ \E t \in Threads : ClearExpired(t)
    \/ \E t \in Threads : CeRemove(t)
    \/ \E t \in Threads : ClearAll(t)
    \/ \E t \in Threads : GetStats(t)
    \/ \E t \in Threads : Return(t)
    \/ \E t \in CoarseTimePoints : Tick(t)

Spec == Init /\ [][Next]_vars

(***************************************************************************)
(* The specifications below follow one caller through one tier of the      *)
(* cache, with the clock at the TTL boundaries (t, t + ttl, t + ttl + 1).  *)
(***************************************************************************)
Caller == {"t1"}
TwoQueries == {"q0", "q1"}

\* SpecEntity: the entity-names tier
NextEntity ==
    \/ \E t \in Caller, c \in Clients, f \in BOOLEAN : GetEntityNames(t, c, f)
    \/ \E t \in Caller, g \in NameLists : ReadGraph(t, g)
    \/ \E t \in Caller : GenReturn(t)
    \/ \E t \in Caller, n \in NameLists : CacheEntityNames(t, n)
    \/ \E t \in Caller : ClearExpired(t)
    \/ \E t \in Caller : CeRemove(t)
    \/ \E t \in Caller : ClearAll(t)
    \/ \E t \in Caller : GetStats(t)
    \/ \E t \in Caller : Return(t)
    \/ \E t \in TimePoints : Tick(t)

InitOneTier == InitWith(SmallMaxSize, Untracked, {TRUE})

SpecEntity == InitOneTier /\ [][NextEntity]_vars

\* SpecTTL: the query tier, two queries with two different results
NextTTL ==
    \/ \E t \in Caller, q \in TwoQueries, r \in AllResults, ttl \in TtlArgs :
           CacheQueryResult(t, q, r, ttl)
    \/ \E t \in Caller : Evict(t)
    \/ \E t \in Caller, q \in TwoQueries : GetCachedQuery(t, q)
    \/ \E t \in Caller : GcqCheck(t)
    \/ \E t \in Caller : ClearExpired(t)
    \/ \E t \in Caller : CeRemove(t)
    \/ \E t \in Caller : ClearAll(t)
    \/ \E t \in Caller : GetStats(t)
    \/ \E t \in Caller : Return(t)
    \/ \E t \in TimePoints : Tick(t)

SpecTTL == InitOneTier /\ [][NextTTL]_vars

(***************************************************************************)
(* SpecLRU: the query tier as Test 4 of __main__ configures it             *)
(* (MAX_QUERY_CACHE_SIZE = 3, queries q0..q4, the default ttl).            *)
(***************************************************************************)
InitLRU == InitWith(TEST_MAX_QUERY_CACHE_SIZE, << >>, {TRUE})

LRUTimePoints == {0, MaxSkew, QUERY_CACHE_TTL + MaxSkew}

NextLRU ==
    \/ \E t \in Caller, q \in AllQueries, r \in OneResult :
           CacheQueryResult(t, q, r, NoTtl)
    \/ \E t \in Caller : Evict(t)
    \/ \E t \in Caller, q \in AllQueries : GetCachedQuery(t, q)
    \/ \E t \in Caller : GcqCheck(t)
    \/ \E t \in Caller : ClearExpired(t)
    \/ \E t \in Caller : CeRemove(t)
    \/ \E t \in Caller : ClearAll(t)
    \/ \E t \in Caller : Return(t)
    \/ \E t \in LRUTimePoints : Tick(t)

SpecLRU == InitLRU /\ [][NextLRU]_vars

(***************************************************************************)
(* SpecStore: one caller, both tiers (one query), and the storage          *)
(* location: a file damaged from outside, a second instance constructed on *)
(* the same location.                                                      *)
(***************************************************************************)
InitStore ==
    /\ InitCache(SmallMaxSize, Untracked, {TRUE}, << >>)
    /\ InitDetectors

OneQuery == {"q0"}

\* the clock at the store, at the entity TTL after it and just past it, and
\* at the query TTL after it
StoreTimePoints ==
    {0, QUERY_CACHE_TTL} \cup {ENTITY_NAMES_TTL + j : j \in 0..MaxSkew}

NextStore ==
    \/ \E t \in Caller : GetEntityNames(t, NoClient, FALSE)
    \/ \E t \in Caller : GenReturn(t)
    \/ \E t \in Caller, n \in NameLists : CacheEntityNames(t, n)
    \/ \E t \in Caller, q \in OneQuery, r \in OneResult, ttl \in TtlArgs :
           CacheQueryResult(t, q, r, ttl)
    \/ \E t \in Caller : Evict(t)
    \/ \E t \in Caller : ClearExpired(t)
    \/ \E t \in Caller : CeRemove(t)
    \/ \E t \in Caller : ClearAll(t)
    \/ \E t \in Caller : Return(t)
    \/ \E t \in StoreTimePoints : Tick(t)
    \/ Construct
    \/ \E doc \in DamagedDocs : Damage(doc)

SpecStore == InitStore /\ [][NextStore]_vars

(***************************************************************************)
(* SpecQuery: one caller stores and reads two queries; the run of          *)
(* cache_query_result calls is recorded.                                   *)
(***************************************************************************)
InitQuery == InitWith(SmallMaxSize, << >>, {TRUE})

NextQuery ==
    \/ \E t \in Caller, q \in TwoQueries, r \in AllResults, ttl \in TtlArgs :
           CacheQueryResult(t, q, r, ttl)
    \/ \E t \in Caller : Evict(t)
    \/ \E t \in Caller, q \in TwoQueries : GetCachedQuery(t, q)
    \/ \E t \in Caller : GcqCheck(t)
    \/ \E t \in Caller : Return(t)
    \/ \E t \in LRUTimePoints : Tick(t)

SpecQuery == InitQuery /\ [][NextQuery]_vars

(***************************************************************************)
(* SpecSweep: one caller fills both tiers and sweeps them.                 *)
(***************************************************************************)
NextSweep ==
    \/ \E t \in Caller, n \in SmallNameLists : CacheEntityNames(t, n)
    \/ \E t \in Caller, q \in TwoQueries, r \in OneResult, ttl \in TtlArgs :
           CacheQueryResult(t, q, r, ttl)
    \/ \E t \in Caller : Evict(t)
    \/ \E t \in Caller : ClearExpired(t)
    \/ \E t \in Caller : CeRemove(t)
    \/ \E t \in Caller : Return(t)
    \/ \E t \in CoarseTimePoints : Tick(t)

SpecSweep == InitOneTier /\ [][NextSweep]_vars

(***************************************************************************)
(* SpecToken: one TokenThresholdDetector, constructed with any config of   *)
(* Configs, evaluated with any context of Contexts.                        *)
(***************************************************************************)
InitAnyConfig ==
    /\ InitCache(SmallMaxSize, Untracked, {TRUE}, UntrackedSweeps)
    /\ \E config \in Configs : InitToken(config)
    /\ InitEmd
    /\ InitOthers

NextToken ==
    \/ \E context \in Contexts : Evaluate(context)
    \/ ResetState

SpecToken == InitAnyConfig /\ [][NextToken]_vars

(***************************************************************************)
(* SpecEmd: one thread evaluates prompts on one EntityMentionDetector; the *)
(* names in the detector's cache are stored by calls of its                *)
(* cache_entity_names or by the refresh of get_entity_names.               *)
(***************************************************************************)
NextEmd ==
    \/ \E c \in Clients : SetMemoryClient(c)
    \/ \E t \in Caller, prompt \in Prompts : EmdEvaluate(t, prompt)
    \/ \E t \in Caller : EmdGetEntityNames(t)
    \/ \E t \in Caller, g \in NameLists : ReadGraph(t, g)
    \/ \E t \in Caller : GenReturn(t)
    \/ \E t \in Caller : EmdResume(t)
    \/ \E t \in Caller, n \in NameLists : emd.pc = "idle" /\ CacheEntityNames(t, n)
    \/ \E t \in Caller : emd.pc = "idle" /\ Return(t)
    \/ \E t \in CoarseTimePoints : Tick(t)

SpecEmd == InitOneTier /\ [][NextEmd]_vars

(***************************************************************************)
(* SpecRefresh: two threads call get_entity_names with and without a       *)
(* client, forced or not, on a cache that holds names and a query entry.   *)
(***************************************************************************)
NextRefresh ==
    \/ \E t \in Threads, c \in Clients, f \in BOOLEAN : GetEntityNames(t, c, f)
    \/ \E t \in Threads, g \in SmallNameLists : ReadGraph(t, g)
    \/ \E t \in Threads : GenReturn(t)
    \/ \E t \in Threads, n \in SmallNameLists : CacheEntityNames(t, n)
    \/ \E t \in Threads, q \in OneQuery, r \in OneResult :
           CacheQueryResult(t, q, r, NoTtl)
    \/ \E t \in Threads : Evict(t)
    \/ \E t \in Threads : Return(t)
    \/ \E t \in CoarseTimePoints : Tick(t)

SpecRefresh == InitOneTier /\ [][NextRefresh]_vars

(***************************************************************************)
(* SpecSingleton: a process in which no instance exists yet; two threads   *)
(* call get_cache, again and again, while the clock advances.              *)
(***************************************************************************)
InitSingleton ==
    /\ now = 0
    /\ cache_data = EmptyCache
    /\ MAX_QUERY_CACHE_SIZE = SmallMaxSize
    /\ disk = NoFile
    /\ fs_writable = TRUE
    /\ lock = NoThread
    /\ pc = [t \in Threads |-> "idle"]
    /\ frame = [t \in Threads |-> NoFrame]
    /\ ret = [t \in Threads |-> NoRet]
    /\ recency = << >>
    /\ inserted = Untracked
    /\ sweeps = UntrackedSweeps
    /\ constructed = 0
    /\ _cache_instance = NoInstance
    /\ InitDetectors

NextSingleton ==
    \/ \E t \in Threads : GetCache(t)
    \/ \E t \in Threads : GcConstruct(t)
    \/ \E t \in Threads : GcStore(t)
    \/ \E t \in Threads : GcReturn(t)
    \/ \E t \in Threads : GcEnd(t)
    \/ \E t \in CoarseTimePoints : Tick(t)

SpecSingleton == InitSingleton /\ [][NextSingleton]_vars

(***************************************************************************)
(* SpecMentions: EntityMentionDetector.evaluate without a client, on a     *)
(* cache that holds one of the lists of MentionNameLists.  The lists hold  *)
(* a name of two words whose words are in the prompt in another order, a   *)
(* name below min_entity_length, names that match a prompt word in part,   *)
(* above and below the threshold, and more than ten names of one prompt.   *)
(***************************************************************************)
MentionNameLists ==
    {<<"The Project", "Project", "X">>,
     <<"Projects", "User", "Projections">>,
     <<"A1", "A2", "A3", "A4", "A5", "A6", "A7", "A8", "A9", "A10", "A11",
       "Projects">>}

MentionPrompts ==
    {"Tell me about Project X",
     "Does the user own a project?",
     "A1 A2 A3 A4 A5 A6 A7 A8 A9 A10 A11 project"}

NextMentions ==
    \/ \E t \in Caller, n \in MentionNameLists :
           emd.pc = "idle" /\ CacheEntityNames(t, n)
    \/ \E t \in Caller : emd.pc = "idle" /\ Return(t)
    \/ \E t \in Caller, prompt \in MentionPrompts : EmdEvaluate(t, prompt)
    \/ \E t \in Caller : EmdGetEntityNames(t)
    \/ \E t \in Caller : GenReturn(t)
    \/ \E t \in Caller : EmdResume(t)
    \/ \E t \in CoarseTimePoints : Tick(t)

SpecMentions == InitOneTier /\ [][NextMentions]_vars

\* KeywordDetector.evaluate on any prompt of KeywordPrompts
NextKeyword == \E prompt \in KeywordPrompts : KeywordEvaluate(prompt)

(***************************************************************************)
(* SpecProject: one ProjectSwitchDetector, constructed with any config of  *)
(* ProjectConfigs on a tracker in any state of TrackerStates, evaluates    *)
(* the contexts of ProjectContexts.                                        *)
(***************************************************************************)
InitProjectConfigs ==
    /\ InitCache(SmallMaxSize, Untracked, {TRUE}, UntrackedSweeps)
    /\ InitToken(DefaultConfig)
    /\ InitEmd
    /\ InitKeyword(DefaultKeywordConfig)
    /\ \E config \in ProjectConfigs, active \in TrackerStates :
           InitProject(config, active)
    /\ InitRegistry

NextProject == \E context \in ProjectContexts : PsdEvaluate(context)

SpecProject == InitProjectConfigs /\ [][NextProject]_vars

(***************************************************************************)
(* SpecRegistry: a caller registers detectors and lists the enabled ones.  *)
(***************************************************************************)
NextRegistry ==
    \/ \E detector \in Registrable : Register(detector)
    \/ GetEnabledDetectors

SpecRegistry == InitOneTier /\ [][NextRegistry]_vars

(***************************************************************************)
(* SpecDetectors: the loop of example_with_registry (example_usage.py      *)
(* lines 98-108): the detectors registered are the ones that get_enabled_  *)
(* detectors lists, and evaluate is called on those.  The registry holds   *)
(* one of the four detectors of Test 3, constructed with any of its        *)
(* configs.                                                                *)
(***************************************************************************)
Engines == {<<TestDetectors[i]>> : i \in DOMAIN TestDetectors}

\* the configs a detector of the engine is constructed with
ConfigsIn(engine, name, configs, default) ==
    IF engine = <<TestDetectors[IndexOf(TestDetectors, name)]>> THEN configs
    ELSE {default}

InitEngine ==
    /\ InitCache(SmallMaxSize, Untracked, {TRUE}, UntrackedSweeps)
    /\ InitEmd
    /\ \E engine \in Engines :
           /\ _detectors = engine
           /\ enabled_detectors = NotListed
           /\ \E config \in ConfigsIn(engine, "token_threshold_detector",
                                      Configs, DefaultConfig) :
                  InitToken(config)
           /\ \E config \in ConfigsIn(engine, "keyword_detector",
                                      KeywordConfigs, DefaultKeywordConfig) :
                  InitKeyword(config)
           /\ \E config \in ConfigsIn(engine, "project_switch_detector",
                                      ProjectConfigs, DefaultProjectConfig),
                 active \in ConfigsIn(engine, "project_switch_detector",
                                      TrackerStates, NoActiveProject) :
                  InitProject(config, active)

\* the detector of this name is among those the loop evaluates
Runs(name) ==
    \E i \in DOMAIN EnabledByPriority(_detectors) :
        EnabledByPriority(_detectors)[i].name = name

NextDetectors ==
    \/ Runs("keyword_detector") /\ NextKeyword
    \/ Runs("entity_mention_detector") /\ NextEmd
    \/ Runs("token_threshold_detector") /\ NextToken
    \/ Runs("project_switch_detector") /\ NextProject

SpecDetectors == InitEngine /\ [][NextDetectors]_vars

(***************************************************************************)
(* Properties.                                                             *)
(***************************************************************************)
QueryCache == cache_data.query_cache
EntitySlot == cache_data.entity_names

\* the next step of thread t inside the method it is executing
Continue(t) ==
    \/ \E g \in NameLists : ReadGraph(t, g)
    \/ GenReturn(t)
    \/ pc[t] = "gen_store" /\ CacheEntityNames(t, frame[t].names)
    \/ Evict(t)
    \/ GcqCheck(t)
    \/ CeRemove(t)
    \/ Return(t)

\* thread t is inside a method and can take its next step, or waits for a lock
\* whose holder can take its next step
Progresses(t) ==
    \/ ENABLED Continue(t)
    \/ /\ lock \in Threads \ {t}
       /\ ENABLED Continue(lock)

\* C1: every invocation of a public method returns (no thread inside a method is
\* unable to take its next step), and the lock is free once every call has
\* returned.
C1_EveryCallReturns ==
    /\ \A t \in Threads : pc[t] # "idle" => Progresses(t)
    /\ (\A t \in Threads : pc[t] = "idle") => lock = NoThread

\* C2: between the steps of the public methods (no thread is between the insert
\* and the end of the eviction loop of cache_query_result) the query cache holds
\* at most MAX_QUERY_CACHE_SIZE entries.
C2_SizeBound ==
    (\A t \in Threads : pc[t] # "cqr_evict")
        => Len(QueryCache) <= MAX_QUERY_CACHE_SIZE

\* a cache_query_result call that evicted an entry has ended with a full cache
C2_Witness ==
    \E t \in Threads :
        /\ pc[t] = "done"
        /\ frame[t].op = "cache_query_result"
        /\ frame[t].evicted = 1
        /\ Len(QueryCache) = MAX_QUERY_CACHE_SIZE

\* C9: a call ends in an error only if it is get_entity_names with a failing
\* refresh source and no cached names to fall back on; every other call
\* returns normally: it is never left unable to go on, and its outcome, once
\* set, is a return.
C9_OnlyRefreshFailureRaises ==
    \A t \in Threads :
        LET no_fallback_failure ==
                /\ frame[t].op = "get_entity_names"
                /\ frame[t].client = "raises"
                /\ frame[t].needs_refresh
                /\ frame[t].entity_cache.data = << >>
        IN  /\ ret[t].kind = "raise" => no_fallback_failure
            /\ pc[t] # "idle" /\ ~no_fallback_failure =>
                   \/ ret[t].kind = "return"
                   \/ ret[t].kind = "pending" /\ ENABLED Continue(t)

\* C10: the lock is held for the whole of every method body, so the bodies
\* run one at a time: a thread inside a method holds the lock and no other
\* thread is inside one; what a body read under the lock is still what the
\* cache holds when it acts on it (the entry get_cached_query looked up, the
\* keys clear_expired collected); the entry cache_query_result inserted is the
\* most recently used entry when the call ends; and a thread entering a method
\* finds the size bound respected.
C10_LockSerializes ==
    /\ \A t \in Threads : pc[t] # "idle" => lock = t
    /\ \A t, u \in Threads : pc[t] # "idle" /\ pc[u] # "idle" => t = u
    /\ lock = NoThread => Len(QueryCache) <= MAX_QUERY_CACHE_SIZE
    /\ \A t \in Threads :
        /\ pc[t] = "gcq_check" =>
               /\ HasKey(QueryCache, frame[t].cache_entry.key)
               /\ Lookup(QueryCache, frame[t].cache_entry.key) = frame[t].cache_entry
        /\ pc[t] = "ce_remove" =>
               Range(frame[t].expired_keys) \subseteq Keys(QueryCache)
        /\ pc[t] = "done" /\ frame[t].op = "cache_query_result" =>
               /\ QueryCache # << >>
               /\ QueryCache[Len(QueryCache)] = frame[t].cache_entry
               /\ Len(QueryCache) <= MAX_QUERY_CACHE_SIZE

\* one thread is between the insert and the eviction, with the cache over its
\* maximum, while the other thread is outside every method
C10_Witness ==
    \E t, u \in Threads :
        /\ t # u
        /\ pc[t] = "cqr_evict"
        /\ Len(QueryCache) > MAX_QUERY_CACHE_SIZE
        /\ pc[u] = "idle"

\* the queries of a run of cache_query_result calls, each once, in the order of
\* their last call
RECURSIVE LastUses(_)
LastUses(ins) ==
    IF ins = << >> THEN << >>
    ELSE Touch(LastUses(SubSeq(ins, 1, Len(ins) - 1)), ins[Len(ins)])

\* the last n elements of s
LastN(s, n) == SubSeq(s, Len(s) - n + 1, Len(s))

\* key a comes before key b in the sequence of keys rec
Precedes(rec, a, b) ==
    \E i, j \in 1..Len(rec) : i < j /\ rec[i] = a /\ rec[j] = b

\* thread t takes one iteration of the eviction loop of cache_query_result
EvictionBy(t) == pc[t] = "cqr_evict" /\ frame'[t].evicted > frame[t].evicted

\* C3: an insert of a new key into a full query cache makes the cache exceed
\* its maximum by one; the eviction that follows removes exactly one entry, the
\* least recently used one (the head of the history of inserts and hits), and
\* keeps every other entry and the new one; the call ends within the maximum.
\* Consequently after a run of cache_query_result calls that name at least
\* MAX_QUERY_CACHE_SIZE different queries the cache holds exactly the last
\* MAX_QUERY_CACHE_SIZE of them (max 3, q0..q4: q2, q3, q4).
C3_EvictsExactlyLRU ==
    /\ [][\A t \in Threads :
            pc[t] = "idle" /\ pc'[t] = "cqr_evict" =>
                LET key == frame'[t].cache_entry.key
                IN  IF ~HasKey(QueryCache, key)
                    THEN QueryCache' = Append(QueryCache, frame'[t].cache_entry)
                    ELSE Len(QueryCache') = Len(QueryCache)]_vars
    /\ [][\A t \in Threads :
            EvictionBy(t) =>
                /\ Len(QueryCache) = MAX_QUERY_CACHE_SIZE + 1
                /\ frame[t].evicted = 0
                /\ QueryCache[1].key = Head(recency)
                /\ QueryCache[1].key # frame[t].cache_entry.key
                /\ QueryCache' = Tail(QueryCache)
                /\ QueryCache'[Len(QueryCache')] = frame[t].cache_entry]_vars
    /\ [](\A t \in Threads :
            pc[t] = "done" /\ frame[t].op = "cache_query_result" =>
                Len(QueryCache) <= MAX_QUERY_CACHE_SIZE)
    /\ []((inserted # Untracked /\ \A t \in Threads : pc[t] # "cqr_evict") =>
            LET used == LastUses(inserted)
            IN  Len(used) >= MAX_QUERY_CACHE_SIZE =>
                    KeySeq(QueryCache) =
                        [i \in 1..MAX_QUERY_CACHE_SIZE |->
                            HashQuery(LastN(used, MAX_QUERY_CACHE_SIZE)[i])])

\* Test 4: q0..q4 were inserted in order with no reads, and q2, q3, q4 remain
C3_Witness ==
    /\ inserted = <<"q0", "q1", "q2", "q3", "q4">>
    /\ MAX_QUERY_CACHE_SIZE = TEST_MAX_QUERY_CACHE_SIZE
    /\ KeySeq(QueryCache) = <<HashQuery("q2"), HashQuery("q3"), HashQuery("q4")>>
    /\ \A t \in Threads : pc[t] = "idle"

\* thread t ends get_cached_query with a hit
HitBy(t) ==
    /\ pc[t] = "gcq_check"
    /\ pc'[t] = "done"
    /\ ret'[t] # ReturnedNone

\* C4: a get_cached_query that hits moves the entry to the most-recently-used
\* end and leaves the other entries in their order; the cache is always ordered
\* by last insert or hit; and an eviction removes an entry only while every
\* entry that stays was inserted or hit after it.  So an entry A that was hit
\* after the last access to B is never evicted before B.
C4_HitPromotesToMRU ==
    /\ [][\A t \in Threads :
            HitBy(t) =>
                LET key == frame[t].cache_entry.key
                IN  /\ Len(QueryCache') = Len(QueryCache)
                    /\ QueryCache'[Len(QueryCache')] = Lookup(QueryCache, key)
                    /\ DelKey(QueryCache', key) = DelKey(QueryCache, key)
                    /\ recency'[Len(recency')] = key]_vars
    /\ [][\A t \in Threads :
            EvictionBy(t) =>
                \A i \in 1..Len(QueryCache') :
                    Precedes(recency, QueryCache[1].key, QueryCache'[i].key)]_vars
    /\ [](KeySeq(QueryCache) = recency)

\* an eviction is about to remove the head while an entry stored before the
\* head (an older timestamp) sits behind it: that entry was promoted by a hit
C4_Witness ==
    \E t \in Threads :
        /\ pc[t] = "cqr_evict"
        /\ Len(QueryCache) = MAX_QUERY_CACHE_SIZE + 1
        /\ \E i \in 2..Len(QueryCache) :
               QueryCache[i].timestamp < QueryCache[1].timestamp

\* C5: a get_cached_query that finds an entry stored at `timestamp` with
\* `ttl_seconds` reports a miss and removes the entry when
\* now > timestamp + ttl_seconds, and returns the stored result, keeping the
\* entry, when now <= timestamp + ttl_seconds.
C5_ExpiryAtTtl ==
    [][\A t \in Threads :
          pc[t] = "gcq_check" /\ pc'[t] = "done" =>
              LET key == HashQuery(frame[t].query)
                  stored == Lookup(QueryCache, key)
              IN  IF now > stored.timestamp + stored.ttl_seconds
                  THEN /\ ret'[t] = ReturnedNone
                       /\ ~HasKey(QueryCache', key)
                  ELSE /\ ret'[t] = Returned(stored.result)
                       /\ HasKey(QueryCache', key)
                       /\ Lookup(QueryCache', key) = stored]_vars

\* a hit exactly at timestamp + ttl_seconds, with the default ttl
C5_Witness ==
    \E t \in Threads :
        /\ pc[t] = "done"
        /\ frame[t].op = "get_cached_query"
        /\ ret[t] = Returned(frame[t].cache_entry.result)
        /\ frame[t].cache_entry.ttl_seconds = QUERY_CACHE_TTL
        /\ now = frame[t].cache_entry.timestamp + QUERY_CACHE_TTL

\* thread t is in a get_entity_names call whose read_graph() returned
RefreshSucceeded(t) ==
    /\ frame[t].op = "get_entity_names"
    /\ frame[t].client = "returns"
    /\ frame[t].reads = 1

\* C6: a get_entity_names call whose refresh succeeded stores the fetched list
\* with the current time and returns that list: after read_graph() returned,
\* the call can store the list, and once it has ended it has returned the
\* fetched list and the slot holds it.
C6_RefreshReturnsFreshList ==
    \A t \in Threads :
        RefreshSucceeded(t) =>
            \/ /\ pc[t] = "gen_store"
               /\ ENABLED CacheEntityNames(t, frame[t].names)
            \/ /\ pc[t] \in {"gen_return", "done"}
               /\ EntitySlot.data = frame[t].names
               /\ EntitySlot.last_refresh # NoTime
               /\ pc[t] = "done" /\ frame[t].caller = "" =>
                      ret[t] = Returned(frame[t].names)

\* C7: a get_entity_names call invokes the refresh source exactly once when a
\* client is given and (force_refresh, or no refresh timestamp, or
\* now > last_refresh + ttl_seconds), and not at all otherwise.
C7_RefreshExactlyWhenDue ==
    /\ [][\A t \in Threads :
            pc[t] = "idle" /\ frame'[t].op = "get_entity_names" =>
                LET due == \/ frame'[t].force
                           \/ EntitySlot.last_refresh = NoTime
                           \/ now > EntitySlot.last_refresh + EntitySlot.ttl_seconds
                IN  pc'[t] = (IF frame'[t].client # NoClient /\ due
                              THEN "gen_refresh" ELSE "gen_return")]_vars
    /\ [][\A t \in Threads :
            frame'[t].reads > frame[t].reads =>
                /\ pc[t] = "gen_refresh"
                /\ pc'[t] # "gen_refresh"
                /\ frame[t].reads = 0
                /\ frame'[t].reads = 1]_vars
    /\ [](\A t \in Threads :
            /\ pc[t] \in {"gen_refresh", "gen_return"} => frame[t].reads = 0
            /\ pc[t] \in {"gen_store", "done"} /\ frame[t].op = "get_entity_names" =>
                   frame[t].reads =
                       (IF frame[t].needs_refresh /\ frame[t].client # NoClient
                        THEN 1 ELSE 0))

\* a call made more than 300 seconds after the last refresh has invoked the
\* refresh source
C7_Witness ==
    \E t \in Threads :
        /\ frame[t].op = "get_entity_names"
        /\ ~frame[t].force
        /\ frame[t].entity_cache.last_refresh # NoTime
        /\ now > frame[t].entity_cache.last_refresh + 300
        /\ frame[t].reads = 1

\* thread t has ended a get_entity_names call whose read_graph() raised
RefreshFailedIn(t) ==
    /\ pc[t] = "done"
    /\ frame[t].op = "get_entity_names"
    /\ frame[t].client = "raises"
    /\ frame[t].reads = 1

\* C8 as stated: when the refresh source raises and a previous value exists in
\* the slot (a refresh was stored: last_refresh is set), that value is returned;
\* when no previous value exists the failure is propagated.
C8_FallbackOnPreviousValue ==
    \A t \in Threads :
        RefreshFailedIn(t) =>
            ret[t] = (IF frame[t].entity_cache.last_refresh # NoTime
                      THEN Returned(frame[t].entity_cache.data)
                      ELSE Raised)

\* C8 as amended: when the refresh source raises and the slot holds a non-empty
\* list of names (stale or not), that list is returned; when the slot holds no
\* names (never refreshed, cleared, or the stored list was empty) the failure
\* is propagated.
C8_FallbackOnCachedNames ==
    \A t \in Threads :
        RefreshFailedIn(t) =>
            ret[t] = (IF frame[t].entity_cache.data # << >>
                      THEN Returned(frame[t].entity_cache.data)
                      ELSE Raised)

\* a failed refresh has returned names that are stale
C8_Witness ==
    \E t \in Threads :
        /\ RefreshFailedIn(t)
        /\ ret[t].kind = "return"
        /\ ret[t].val # << >>
        /\ ~frame[t].force
        /\ now > frame[t].entity_cache.last_refresh + ENTITY_NAMES_TTL

\* thread t enters get_entity_names and goes to its last line without a refresh
ReturnsSlotAsIs(t) ==
    /\ pc[t] = "idle"
    /\ frame'[t].op = "get_entity_names"
    /\ pc'[t] = "gen_return"

\* the list get_entity_names returns at line 105 is the one the slot held when
\* the call entered
ReturnsSnapshot ==
    /\ [][\A t \in Threads :
            ReturnsSlotAsIs(t) => frame'[t].entity_cache = EntitySlot]_vars
    /\ [][\A t \in Threads :
            pc[t] = "gen_return" /\ pc'[t] = "done" =>
                ret'[t] = Returned(frame[t].entity_cache.data)]_vars

\* C11 as stated: every list get_entity_names returns without a raise of the
\* refresh source was stored at most ttl_seconds (300) before the time of the
\* call, with or without a memory client: a call that goes on to return the
\* slot's stored list finds it stored at most 300 seconds ago.
C11_ReturnedListWithinTtl ==
    /\ ReturnsSnapshot
    /\ [][\A t \in Threads :
            ReturnsSlotAsIs(t) /\ EntitySlot.last_refresh # NoTime =>
                now <= EntitySlot.last_refresh + ENTITY_NAMES_TTL]_vars

\* C11 as amended: a list returned by a get_entity_names call that passes a
\* memory client, without a raise of the refresh source, was stored at most
\* 300 seconds before the time of the call.  (A call without a client returns
\* the slot's list as it is.)
C11_ClientCallReturnsWithinTtl ==
    /\ ReturnsSnapshot
    /\ [][\A t \in Threads :
            ReturnsSlotAsIs(t) /\ frame'[t].client # NoClient =>
                /\ ~frame'[t].force
                /\ EntitySlot.last_refresh # NoTime
                /\ now <= EntitySlot.last_refresh + ENTITY_NAMES_TTL]_vars
    /\ [](\A t \in Threads :
            /\ pc[t] = "done"
            /\ frame[t].op = "get_entity_names"
            /\ frame[t].client # NoClient
            /\ ret[t].kind = "return"
            => \/ frame[t].reads = 0
               \/ frame[t].client = "raises")

\* a call with a client has returned, without a refresh, a list stored exactly
\* 300 seconds before
C11_Witness ==
    \E t \in Threads :
        /\ pc[t] = "done"
        /\ frame[t].op = "get_entity_names"
        /\ frame[t].client # NoClient
        /\ frame[t].reads = 0
        /\ ret[t] = Returned(frame[t].entity_cache.data)
        /\ ret[t].val # << >>
        /\ now = frame[t].entity_cache.last_refresh + ENTITY_NAMES_TTL

\* a step that constructs a fresh instance on the storage location
Constructing == constructed' = constructed + 1

\* C12: cache_entity_names(L) leaves L, with the time of the call, in the file;
\* a fresh instance constructed on that file at most ttl_seconds (300) after
\* the time of the call holds the same slot (L in the same order, the same
\* refresh time); and get_entity_names(None) attempts no refresh and returns
\* the list the slot holds.
C12_RoundTrip ==
    /\ [](\A t \in Threads :
            pc[t] = "done" /\ frame[t].op = "cache_entity_names" =>
                /\ disk = cache_data
                /\ disk.entity_names.data = frame[t].names
                /\ disk.entity_names.last_refresh # NoTime
                /\ disk.entity_names.last_refresh <= now)
    /\ [][(/\ Constructing
            /\ disk \notin DamagedDocs
            /\ disk.entity_names.last_refresh # NoTime
            /\ now <= disk.entity_names.last_refresh + ENTITY_NAMES_TTL)
           => cache_data'.entity_names = disk.entity_names]_vars
    /\ [][\A t \in Threads :
            (/\ pc[t] = "idle"
             /\ frame'[t].op = "get_entity_names"
             /\ frame'[t].client = NoClient)
            => /\ pc'[t] = "gen_return"
               /\ frame'[t].entity_cache = EntitySlot]_vars
    /\ [][\A t \in Threads :
            pc[t] = "gen_return" /\ pc'[t] = "done" =>
                ret'[t] = Returned(frame[t].entity_cache.data)]_vars

\* Test 6 at the boundary: get_entity_names(None) on a second instance has
\* returned the two names, in their order, that the file held, 300 seconds
\* after they were stored
C12_Witness ==
    \E t \in Threads :
        /\ constructed = 2
        /\ pc[t] = "done"
        /\ frame[t].op = "get_entity_names"
        /\ frame[t].client = NoClient
        /\ ret[t] = Returned(<<"User", "Project">>)
        /\ disk \notin DamagedDocs
        /\ disk.entity_names = EntitySlot
        /\ now = EntitySlot.last_refresh + ENTITY_NAMES_TTL

\* thread t enters clear_expired / ends it
SweepEntered(t) == pc[t] = "idle" /\ frame'[t].op = "clear_expired"
SweepEnded(t) == pc[t] = "ce_remove" /\ pc'[t] = "done"

\* a clear_expired call follows another one with no write in between
SecondSweep == sweeps # << >> /\ sweeps # UntrackedSweeps

\* the slot or a query entry is within its ttl at time t1 and past it at time t2
ExpiresBetween(t1, t2) ==
    \/ /\ EntitySlot.last_refresh # NoTime
       /\ t1 <= EntitySlot.last_refresh + EntitySlot.ttl_seconds
       /\ EntitySlot.last_refresh + EntitySlot.ttl_seconds < t2
    \/ \E i \in 1..Len(QueryCache) :
           /\ t1 <= QueryCache[i].timestamp + QueryCache[i].ttl_seconds
           /\ QueryCache[i].timestamp + QueryCache[i].ttl_seconds < t2

\* a clear_expired call that found nothing to remove returns 0 and leaves the
\* cache and the file as they are
EmptySweepReturnsZero ==
    [][\A t \in Threads :
          (/\ SweepEnded(t)
           /\ frame[t].removed_count = 0
           /\ frame[t].expired_keys = << >>)
          => /\ ret'[t] = Returned(0)
             /\ cache_data' = cache_data
             /\ disk' = disk]_vars

\* C13 as stated: a clear_expired call that follows another clear_expired call
\* with no write in between finds nothing to remove, returns 0 and leaves the
\* cache state unchanged.
C13_SecondSweepRemovesNothing ==
    /\ [][\A t \in Threads :
            SweepEntered(t) /\ SecondSweep =>
                /\ frame'[t].removed_count = 0
                /\ frame'[t].expired_keys = << >>
                /\ cache_data' = cache_data]_vars
    /\ EmptySweepReturnsZero

\* C13 as amended: a clear_expired call that follows another clear_expired
\* call with no write in between, and with no entry and no slot passing its
\* expiry time between the clock readings of the two calls, finds nothing to
\* remove, returns 0 and leaves the cache state unchanged.
C13_SecondSweepAtSameExpiryState ==
    /\ [][\A t \in Threads :
            (/\ SweepEntered(t)
             /\ SecondSweep
             /\ ~ExpiresBetween(sweeps[Len(sweeps)], now))
            => /\ frame'[t].removed_count = 0
               /\ frame'[t].expired_keys = << >>
               /\ cache_data' = cache_data]_vars
    /\ EmptySweepReturnsZero

\* a second clear_expired call, made later than the first on a cache that
\* holds names and a query entry, has returned 0
C13_Witness ==
    \E t \in Threads :
        /\ pc[t] = "done"
        /\ frame[t].op = "clear_expired"
        /\ Len(sweeps) = 2
        /\ sweeps[1] < sweeps[2]
        /\ ret[t] = Returned(0)
        /\ QueryCache # << >>
        /\ EntitySlot.last_refresh # NoTime

\* C14: an instance constructed on a storage location whose file is missing,
\* unparsable, or parses to a document of the wrong shape is an empty cache:
\* no names, no refresh timestamp, no query entries.
C14_DamagedStorageGivesEmptyCache ==
    [][Constructing /\ disk \in DamagedDocs => cache_data' = EmptyCache]_vars

\* the methods that change the cache and save it
Mutating ==
    {"cache_entity_names", "cache_query_result", "get_cached_query",
     "clear_expired", "clear_all"}

\* C15: while the writes of the file fail, a mutating method still ends with a
\* return, and the cache in memory holds its update: the stored names, the
\* inserted entry at the most-recently-used end, the empty cache after
\* clear_all, no collected key after clear_expired, no expired entry after the
\* get_cached_query that found it; and a get_cached_query hit returns the
\* result the cache in memory holds.
C15_FailedWriteKeepsUpdate ==
    \A t \in Threads :
        (~fs_writable /\ pc[t] = "done" /\ frame[t].op \in Mutating) =>
            LET op == frame[t].op
                key == HashQuery(frame[t].query)
            IN  /\ ret[t].kind = "return"
                /\ op = "cache_entity_names" =>
                       /\ EntitySlot.data = frame[t].names
                       /\ EntitySlot.last_refresh # NoTime
                /\ op = "cache_query_result" =>
                       /\ QueryCache # << >>
                       /\ QueryCache[Len(QueryCache)] = frame[t].cache_entry
                /\ op = "clear_all" => cache_data = EmptyCache
                /\ op = "clear_expired" =>
                       /\ Range(frame[t].expired_keys) \cap Keys(QueryCache) = {}
                       /\ ret[t] = Returned(frame[t].removed_count)
                /\ op = "get_cached_query" /\ frame[t].cache_entry # NoEntry =>
                       IF ret[t] = ReturnedNone
                       THEN ~HasKey(QueryCache, key)
                       ELSE /\ HasKey(QueryCache, key)
                            /\ ret[t] = Returned(Lookup(QueryCache, key).result)

\* no write has ever reached the file, and a get_cached_query has returned
\* the result that a cache_query_result call stored
C15_Witness ==
    \E t \in Threads :
        /\ ~fs_writable
        /\ disk = NoFile
        /\ pc[t] = "done"
        /\ frame[t].op = "get_cached_query"
        /\ ret[t] = Returned("r1")


(***************************************************************************)
(* TokenThresholdDetector properties.                                      *)
(***************************************************************************)
Evaluating == \E context \in Contexts : Evaluate(context)

\* the token count the latest evaluate call was given
TokenCount == Get(evaluated, "token_count", 0)

\* C16: between two reset_state calls each threshold is reported by at most
\* one returned trigger, whatever token counts evaluate is given.
C16_EachThresholdReportedOnce ==
    \A i, j \in DOMAIN reported : reported[i] = reported[j] => i = j

\* threshold 100000 has fired and the next evaluate, at 105000 or at 110000,
\* returned None
C16_Witness ==
    /\ thresholds = DEFAULT_THRESHOLDS
    /\ reported = <<100000>>
    /\ TokenCount \in {105000, 110000}
    /\ trigger = Absent

\* the thresholds evaluate may report: configured, not fired, reached
Candidates == {th \in Range(thresholds) : th \notin triggered /\ th <= TokenCount'}

Smallest(S) == CHOOSE x \in S : \A y \in S : x <= y

\* C17: an evaluate call adds at most one threshold to the fired-set, and the
\* threshold it reports is the smallest configured one that has not fired and
\* is at most the token count; the thresholds are kept in ascending order.
C17_ReportsSmallestUnfired ==
    [][Evaluating =>
        /\ Cardinality(triggered' \ triggered) <= 1
        /\ \A i, j \in DOMAIN thresholds : i <= j => thresholds[i] <= thresholds[j]
        /\ IF Candidates = {} THEN trigger' = Absent
           ELSE /\ trigger'.kind = "trigger"
                /\ trigger'.threshold = Smallest(Candidates)
                /\ triggered' = triggered \cup {Smallest(Candidates)}]_vars

\* a detector configured with [150000, 100000, 50000] has reported all three
\* in ascending order, each at a token count above all of them
C17_Witness ==
    /\ reported = <<50000, 100000, 150000>>
    /\ TokenCount >= 150000
    /\ before_reset = << >>

\* C18: reset_state leaves the fired-set empty, and from then on every
\* evaluate returns what a detector freshly constructed with the same
\* thresholds returns for the same calls.
C18_ResetIsFreshDetector ==
    [][/\ ResetState => triggered' = Constructed.triggered
       /\ Evaluating => /\ trigger' = fresh'.trigger
                        /\ triggered' = fresh'.triggered]_vars

\* threshold 100000 fired, reset_state was called, and 100000 fired again at a
\* token count of 100000
C18_Witness ==
    /\ 100000 \in Range(before_reset)
    /\ reported = <<100000>>
    /\ trigger.kind = "trigger"
    /\ trigger.threshold = 100000
    /\ trigger.current_count = 100000

\* C19: a trigger's confidence is 0.9 for a threshold of at least 150000, 0.8
\* for one of at least 100000, else 0.7, plus 0.1 when the token count is
\* more than 10000 above the threshold, and at most 1.0 (in hundredths).
C19_Confidence ==
    trigger.kind = "trigger" =>
        LET T == trigger.threshold
            C == trigger.current_count
            base == IF T >= 150000 THEN 90 ELSE IF T >= 100000 THEN 80 ELSE 70
            boost == IF C - T > 10000 THEN 10 ELSE 0
        IN  /\ trigger.confidence = base + boost
            /\ trigger.confidence <= 100

\* a trigger exactly 10000 above its threshold, without the boost
C19_Witness ==
    /\ trigger.kind = "trigger"
    /\ trigger.current_count - trigger.threshold = 10000
    /\ trigger.confidence = 80

(***************************************************************************)
(* EntityMentionDetector properties.                                       *)
(***************************************************************************)
\* C20: EntityMentionDetector.evaluate never ends in an error; when the
\* refresh fails and no names are cached it returns None.
C20_EvaluateNeverRaises == emd.ret.kind # "raise"

\* the context has no positive token_count
NoCount(context) ==
    \/ "token_count" \notin DOMAIN context
    \/ context.token_count <= 0

\* the configured thresholds that have not fired
Unfired == Range(thresholds) \ triggered

\* C28: evaluate returns None and leaves the fired-set as it is when the
\* context has no token_count, a zero or a negative one, or when no un-fired
\* threshold is at most the token count.
C28_AbsentLeavesFiredSet ==
    [][Evaluating /\ (\/ NoCount(evaluated')
                      \/ \A th \in Unfired : th > evaluated'.token_count)
           => trigger' = Absent /\ triggered' = triggered]_vars

\* the latest evaluate had no token_count in its context, after a threshold
\* had fired
C28_Witness ==
    /\ "token_count" \notin DOMAIN evaluated
    /\ evaluated # NoContext
    /\ triggered # {}
    /\ trigger = Absent

\* C29: evaluate at or above the largest threshold triggers as long as a
\* threshold has not fired; after as many triggers as there are distinct
\* thresholds all of them have fired, and then evaluate returns None for
\* every token count until reset_state.
C29_AllFiredThenAbsent ==
    [][/\ Len(reported') = Cardinality(Range(thresholds)) => Unfired' = {}
       /\ Evaluating =>
            /\ Unfired # {} /\ ~NoCount(evaluated')
                 /\ (\A th \in Range(thresholds) : evaluated'.token_count >= th)
               => trigger'.kind = "trigger"
            /\ Unfired = {} => trigger' = Absent]_vars

\* three distinct thresholds have fired in three calls, and the latest
\* evaluate, above all of them, returned None
C29_Witness ==
    /\ Cardinality(Range(thresholds)) = 3
    /\ Len(reported) = 3
    /\ Unfired = {}
    /\ ~NoCount(evaluated)
    /\ \A th \in Range(thresholds) : evaluated.token_count >= th
    /\ trigger = Absent

(***************************************************************************)
(* clear_expired, cache_query_result and the saved document.               *)
(***************************************************************************)
\* the query entries that are past their ttl at the clock's time
PastTtl(qc) == {i \in DOMAIN qc : now > qc[i].timestamp + qc[i].ttl_seconds}

\* the entity slot has a timestamp and is past its ttl at the clock's time
SlotPastTtl ==
    /\ EntitySlot.last_refresh # NoTime
    /\ now > EntitySlot.last_refresh + EntitySlot.ttl_seconds

\* C25: clear_expired collects exactly the query entries with
\* now > timestamp + ttl_seconds and removes them, keeping the others in their
\* order; it resets the entity slot to no names and no timestamp iff the slot
\* has a timestamp and is stale; it returns 1 for a reset slot plus the number
\* of entries removed.
C25_SweepRemovesExactlyExpired ==
    [][\A t \in Threads :
        /\ ClearExpired(t) =>
             /\ Range(frame'[t].expired_keys) = {QueryCache[i].key : i \in PastTtl(QueryCache)}
             /\ Len(frame'[t].expired_keys) = Cardinality(PastTtl(QueryCache))
             /\ QueryCache' = QueryCache
             /\ EntitySlot' = IF SlotPastTtl
                              THEN [EntitySlot EXCEPT !.data = << >>,
                                                      !.last_refresh = NoTime]
                              ELSE EntitySlot
             /\ frame'[t].removed_count = IF SlotPastTtl THEN 1 ELSE 0
        /\ pc[t] = "ce_remove" /\ pc'[t] = "ce_remove" => cache_data' = cache_data
        /\ CeRemove(t) =>
             /\ QueryCache' = SelectSeq(QueryCache,
                                  LAMBDA e : e.key \notin Range(frame[t].expired_keys))
             /\ EntitySlot' = EntitySlot
             /\ ret'[t] = Returned(frame[t].removed_count
                                     + Len(frame[t].expired_keys))]_vars

\* a sweep that reset the slot, removed one of two query entries and
\* returned 2
C25_Witness ==
    \E t \in Threads :
        /\ pc[t] = "done"
        /\ frame[t].op = "clear_expired"
        /\ Len(frame[t].expired_keys) = 1
        /\ ret[t] = Returned(2)
        /\ Len(QueryCache) = 1
        /\ EntitySlot = EmptySlot

\* C26: cache_query_result for a query that is cached replaces its result,
\* timestamp and ttl, puts it at the most-recently-used end, keeps the other
\* entries and the number of entries, and leaves nothing for the eviction
\* loop to remove.
C26_OverwriteMovesToMRU ==
    [][\A t \in Threads, q \in TwoQueries, r \in AllResults, ttl \in TtlArgs :
          CacheQueryResult(t, q, r, ttl) /\ HashQuery(q) \in Keys(QueryCache) =>
              /\ Len(QueryCache') = Len(QueryCache)
              /\ SubSeq(QueryCache', 1, Len(QueryCache) - 1)
                     = SelectSeq(QueryCache, LAMBDA e : e.key # HashQuery(q))
              /\ QueryCache'[Len(QueryCache)]
                     = [key |-> HashQuery(q), result |-> r, timestamp |-> now,
                        ttl_seconds |-> IF ttl = NoTtl THEN QUERY_CACHE_TTL ELSE ttl,
                        query |-> q]
              /\ Len(QueryCache') <= MAX_QUERY_CACHE_SIZE]_vars

\* q0, q1 and q0 again were stored in one run of calls: the second q0 is the
\* newest entry, q1 is kept, and nothing was evicted
C26_Witness ==
    \E t \in Threads :
        /\ pc[t] = "done"
        /\ frame[t].op = "cache_query_result"
        /\ inserted = <<"q0", "q1", "q0">>
        /\ frame[t].evicted = 0
        /\ KeySeq(QueryCache) = <<HashQuery("q1"), HashQuery("q0")>>
        /\ QueryCache[2] = frame[t].cache_entry

Fenced(prompt) == StartsWith(prompt, Fence)
InGetEntityNames(t) == frame[t].op = "get_entity_names"
CachedNames == cache_data.entity_names.data

\* C23: a prompt that begins with the fence is answered with absent by
\* KeywordDetector.evaluate and by EntityMentionDetector.evaluate, and while
\* the latest prompt of EntityMentionDetector.evaluate is a fenced one no
\* get_entity_names call is running: evaluate has returned without one
C23_FencedPromptNeverTriggers ==
    /\ Fenced(kwd.prompt) => kwd.ret = Absent
    /\ Fenced(emd.prompt) =>
           /\ emd.pc = "idle"
           /\ emd.ret = EmdReturned(Absent)
           /\ \A t \in Threads : ~InGetEntityNames(t)

\* an entity name is cached and fresh, a client is set, and the fenced prompt
\* that names the entity was answered with absent
C23_Witness ==
    /\ Fenced(emd.prompt)
    /\ emd.ret = EmdReturned(Absent)
    /\ _memory_client # NoClient
    /\ \E i \in DOMAIN CachedNames :
           ContainsWord(Lower(emd.prompt), Lower(CachedNames[i]))
    /\ ~NeedsRefresh(cache_data.entity_names, FALSE, now)


\* a prompt that begins with four spaces, and one in which more than 0.3 of
\* the characters are among (){}<>[];:,.
Indented(prompt) == StartsWith(prompt, "    ")
Dense(prompt) ==
    /\ Len(prompt) > 0
    /\ 10 * Cardinality({i \in 1..Len(prompt) :
                            Has("(){}<>[];:,.", At(prompt, i))})
           > 3 * Len(prompt)

\* C35: a prompt that begins with four spaces, or whose density of the
\* characters (){}<>[];:,. exceeds 0.3, is answered with absent by
\* KeywordDetector.evaluate and by EntityMentionDetector.evaluate
C35_CodePromptsReturnAbsent ==
    /\ (Indented(kwd.prompt) \/ Dense(kwd.prompt)) => kwd.ret = Absent
    /\ ((Indented(emd.prompt) \/ Dense(emd.prompt)) /\ emd.pc = "idle") =>
           emd.ret = EmdReturned(Absent)


(***************************************************************************)
(* What an instance holds when it has been constructed on a file           *)
(***************************************************************************)
\* the file holds an entity-names slot whose names are older than its ttl
PersistedSlotStale ==
    /\ "entity_names" \in DOMAIN disk
    /\ {"last_refresh", "ttl_seconds"} \subseteq DOMAIN disk.entity_names
    /\ disk.entity_names.last_refresh # NoTime
    /\ now > disk.entity_names.last_refresh + disk.entity_names.ttl_seconds

\* C38: the instance a construction leaves holds no query entry with
\* now > timestamp + ttl_seconds, and if the slot of the file was stale its
\* slot has no names and no refresh time
C38_FreshInstanceHoldsNoExpiredData ==
    [][Constructing =>
          /\ \A i \in DOMAIN cache_data'.query_cache :
                 now' <= cache_data'.query_cache[i].timestamp
                             + cache_data'.query_cache[i].ttl_seconds
          /\ PersistedSlotStale =>
                 /\ cache_data'.entity_names.data = << >>
                 /\ cache_data'.entity_names.last_refresh = NoTime]_vars

\* a second instance, constructed after the names had expired beside a query
\* entry that had not: it holds the entry and an empty slot
C38_Witness ==
    /\ constructed = 2
    /\ \A t \in Threads : pc[t] = "idle"
    /\ now > ENTITY_NAMES_TTL
    /\ sweeps = << >>
    /\ cache_data.entity_names = EmptySlot
    /\ cache_data.query_cache # << >>
    /\ \A i \in DOMAIN cache_data.query_cache :
           /\ cache_data.query_cache[i].timestamp = 0
           /\ now <= cache_data.query_cache[i].timestamp
                         + cache_data.query_cache[i].ttl_seconds
    /\ disk = cache_data


\* C39: the entity-names slot holds no names while its last_refresh is null,
\* and its ttl_seconds is 300
C39_NamesOnlyWithRefreshTime ==
    /\ cache_data.entity_names.last_refresh = NoTime =>
           cache_data.entity_names.data = << >>
    /\ cache_data.entity_names.ttl_seconds = 300

\* clear_expired found nothing to remove but the stale names: the slot is
\* empty again and has no refresh time
C39_Witness ==
    \E t \in Threads :
        /\ frame[t].op = "clear_expired"
        /\ pc[t] = "done"
        /\ frame[t].expired_keys = << >>
        /\ frame[t].removed_count = 1
        /\ cache_data.entity_names = EmptySlot


(***************************************************************************)
(* get_cache                                                               *)
(***************************************************************************)
GotCache(t) == pc[t] = "gc_done"

\* C40: get_cache constructs at most one instance, and the calls that have
\* returned, returned the same instance
C40_OneSharedInstance ==
    /\ constructed <= 1
    /\ \A t, u \in Threads :
           GotCache(t) /\ GotCache(u) => ret[t] = ret[u]


(***************************************************************************)
(* A get_entity_names call whose refresh fails                             *)
(***************************************************************************)
\* thread t is inside get_entity_names with a client whose read_graph() raises
Failing(t) ==
    /\ InGetEntityNames(t)
    /\ frame[t].client = "raises"
    /\ pc[t] = "gen_refresh"
\* a call with a client that entered now would refresh without being forced
DueAgain ==
    \/ cache_data.entity_names.last_refresh = NoTime
    \/ now > cache_data.entity_names.last_refresh
                + cache_data.entity_names.ttl_seconds
\* from its entry to its end the call of t leaves the cache and the storage
\* as they are, and so does every step another thread takes meanwhile
FailedRefreshKeepsCache(t) ==
    /\ (pc[t] = "idle" /\ Failing(t)') =>
           /\ cache_data' = cache_data
           /\ disk' = disk
           /\ frame'[t].entity_cache = cache_data.entity_names
    /\ Failing(t) => cache_data' = cache_data /\ disk' = disk
    /\ RefreshFailedIn(t)' => cache_data'.entity_names = frame'[t].entity_cache

\* C37 as stated: a call whose refresh fails leaves names, last_refresh, ttl
\* and the query map as they were, and a refresh is due again after it
C37_FailedRefreshIsDueAgain ==
    [][\A t \in Threads :
          /\ FailedRefreshKeepsCache(t)
          /\ RefreshFailedIn(t)' => DueAgain']_vars

\* C37: a call whose refresh fails leaves names, last_refresh, ttl and the
\* query map as they were; a refresh is due again after it unless the call
\* was forced on names still within their ttl
C37_FailedRefreshChangesNothing ==
    [][\A t \in Threads :
          /\ FailedRefreshKeepsCache(t)
          /\ RefreshFailedIn(t)' => DueAgain' \/ frame'[t].force]_vars

\* a refresh of expired names failed beside a cached query: the names were
\* returned, and the slot still holds them with the old last_refresh
C37_Witness ==
    \E t \in Threads :
        /\ RefreshFailedIn(t)
        /\ ~frame[t].force
        /\ ret[t] = Returned(CachedNames)
        /\ CachedNames # << >>
        /\ cache_data.query_cache # << >>
        /\ DueAgain


(***************************************************************************)
(* The names EntityMentionDetector.evaluate reported for the latest prompt *)
(***************************************************************************)
ReportedNames ==
    IF emd.ret.kind = "return" /\ emd.ret.val.kind = "trigger"
    THEN emd.ret.val.names
    ELSE << >>
\* the entity name is in the prompt as a whole word, whatever the case
IsExact(name) == ContainsWord(Lower(emd.prompt), Lower(name))
\* the score of a name against the latest prompt
ScoreOf(name) ==
    IF IsExact(name) THEN One
    ELSE FuzzyMatch(Lower(name), ExtractWords(Lower(emd.prompt)))

MentionsCappedAndFiltered ==
    /\ Len(ReportedNames) <= 10
    /\ \A i \in DOMAIN ReportedNames :
           /\ Len(ReportedNames[i]) >= min_entity_length
           /\ Leq(partial_match_threshold, ScoreOf(ReportedNames[i]))
MentionsByScore ==
    \A i, j \in DOMAIN ReportedNames :
        i < j => Leq(ScoreOf(ReportedNames[j]), ScoreOf(ReportedNames[i]))

\* C36 as stated: at most 10 names, by score descending with every exact
\* match before every partial match, none shorter than min_entity_length
\* and no partial match below partial_match_threshold
C36_ExactBeforeEveryPartial ==
    /\ MentionsCappedAndFiltered
    /\ MentionsByScore
    /\ \A i, j \in DOMAIN ReportedNames :
           (i < j /\ IsExact(ReportedNames[j])) => IsExact(ReportedNames[i])

\* C36: at most 10 names, by score descending with every exact match before
\* every partial match of a score below 1.0, none shorter than
\* min_entity_length and no partial match below partial_match_threshold
C36_MentionsCappedSortedFiltered ==
    /\ MentionsCappedAndFiltered
    /\ MentionsByScore
    /\ \A i, j \in DOMAIN ReportedNames :
           (i < j /\ IsExact(ReportedNames[j])) =>
               \/ IsExact(ReportedNames[i])
               \/ Leq(One, ScoreOf(ReportedNames[i]))

\* twelve cached names match the prompt, the last of them in part; the ten
\* reported ones are exact matches, in the order of the cache
C36_Witness ==
    /\ Len(CachedNames) = 12
    /\ \A i \in DOMAIN CachedNames :
           Leq(partial_match_threshold, ScoreOf(CachedNames[i]))
    /\ ~IsExact(CachedNames[12])
    /\ ReportedNames = SubSeq(CachedNames, 1, 10)


\* what the latest evaluate of each detector returned, where it returned
Returns ==
    {kwd.ret, trigger, psd.ret}
        \cup (IF emd.ret.kind = "return" THEN {emd.ret.val} ELSE {})

\* C24: every TriggerResult a detector's evaluate returned has triggered = true
\* and a confidence from 0 to 1 (0 to 100 hundredths)
C24_TriggerResultWellFormed ==
    \A result \in Returns :
        result.kind = "trigger" =>
            /\ result.triggered = TRUE
            /\ result.confidence >= 0
            /\ result.confidence <= 100

\* a question of more than 50 characters with a `memory` keyword: both boosts
\* apply to a base of 0.9 and the confidence returned is 1.0
C24_Witness ==
    /\ kwd.ret.kind = "trigger"
    /\ kwd.ret.category = "memory"
    /\ Has(kwd.prompt, "?")
    /\ Len(kwd.prompt) > 50
    /\ kwd.ret.confidence = 100


(***************************************************************************)
(* ProjectSwitchDetector.evaluate: psd holds the context of the latest     *)
(* call, the state it read from the tracker and what it returned.          *)
(***************************************************************************)
ProjectEvaluated == psd.ret # NotEvaluated
CurrentProject == Get(psd.context, "current_project", EmptyProject)
\* `if not current_project` (line 85): a missing or an empty mapping
HasCurrentProject == DOMAIN CurrentProject # {}
PreviousProject == Get(psd.previous, "project", EmptyProject)
PathOf(project) == Get(project, "absolute_path", "")
TrackerHolds(project) == tracker # NoActiveProject /\ tracker.project = project

\* the latest evaluate found a previous project in the tracker, and its
\* resolved path is not the one of the current project
DirectoryChanged ==
    /\ ProjectEvaluated
    /\ HasCurrentProject
    /\ psd.previous # NoActiveProject
    /\ PathOf(CurrentProject) # "" /\ PathOf(PreviousProject) # ""
    /\ Resolve(PathOf(CurrentProject)) # Resolve(PathOf(PreviousProject))

ReportsDirectorySwitch ==
    /\ psd.ret.kind = "trigger"
    /\ psd.ret.switch_type = "directory"
    /\ TrackerHolds(CurrentProject)

FirstRun ==
    ProjectEvaluated /\ HasCurrentProject /\ psd.previous = NoActiveProject

RemoteOf(project) == Get(project, "git_remote_url", "")
BranchOf(project) == Get(project, "git_branch", "")
\* the latest evaluate compared the current project with a previous one
Compared ==
    /\ ProjectEvaluated
    /\ HasCurrentProject
    /\ psd.previous # NoActiveProject
    /\ DOMAIN PreviousProject # {}
Reports(switch_type) ==
    psd.ret.kind = "trigger" /\ psd.ret.switch_type = switch_type

PathsDiffer ==
    /\ PathOf(CurrentProject) # "" /\ PathOf(PreviousProject) # ""
    /\ Resolve(PathOf(CurrentProject)) # Resolve(PathOf(PreviousProject))
RemotesDiffer ==
    /\ RemoteOf(CurrentProject) # "" /\ RemoteOf(PreviousProject) # ""
    /\ CleanRemote(RemoteOf(CurrentProject))
           # CleanRemote(RemoteOf(PreviousProject))
BranchesDiffer ==
    /\ BranchOf(CurrentProject) # "" /\ BranchOf(PreviousProject) # ""
    /\ BranchOf(CurrentProject) # BranchOf(PreviousProject)

\* C32: the checks are applied in the order directory, remote, branch: paths
\* that differ give `directory` whatever the remotes and the branches are,
\* `remote` is reported iff the remotes differ and the paths do not, and
\* `branch` only when neither the paths nor the remotes differ
C32_FirstMatchingCheckWins ==
    Compared =>
        /\ PathsDiffer => Reports("directory")
        /\ Reports("directory") => PathsDiffer
        /\ Reports("remote") <=> (~PathsDiffer /\ RemotesDiffer)
        /\ Reports("branch") => ~PathsDiffer /\ ~RemotesDiffer /\ BranchesDiffer

\* path, remote and branch all differ from the previous project, one of the
\* branches is a major one, and a `directory` switch is reported
C32_Witness ==
    /\ Compared
    /\ PathsDiffer /\ RemotesDiffer /\ BranchesDiffer
    /\ BranchOf(PreviousProject) \in Range(major_branches)
    /\ detect_branch_switch
    /\ Reports("directory")

IsMajor(branch) == branch \in Range(major_branches)
OnBranch(project, branch) == project = [ProjectA EXCEPT !.git_branch = branch]
DefaultBranchRule ==
    detect_branch_switch /\ major_branches = DEFAULT_MAJOR_BRANCHES

WithoutGitSuffix(url) ==
    IF Len(url) >= 4 /\ SubSeq(url, Len(url) - 3, Len(url)) = ".git"
    THEN SubSeq(url, 1, Len(url) - 4)
    ELSE url
WithHttps(url) ==
    IF StartsWith(url, "http://")
    THEN "https://" \o SubSeq(url, 8, Len(url))
    ELSE url
NormalizedRemote(url) == WithHttps(WithoutGitSuffix(url))

\* the latest evaluate reached the remote check with both URLs present
RemotesCompared ==
    /\ Compared
    /\ ~PathsDiffer
    /\ RemoteOf(CurrentProject) # "" /\ RemoteOf(PreviousProject) # ""

\* C34: with equal paths and both remote URLs present, a `remote` switch is
\* reported iff the URLs differ once a trailing ".git" suffix is removed and
\* a leading "http://" is rewritten to "https://"
C34_RemoteSwitchIffNormalizedDiffer ==
    RemotesCompared =>
        (Reports("remote") <=>
            NormalizedRemote(RemoteOf(CurrentProject))
                # NormalizedRemote(RemoteOf(PreviousProject)))


(***************************************************************************)
(* DetectorRegistry.get_enabled_detectors                                  *)
(***************************************************************************)
Listed == enabled_detectors.listed
Listing == enabled_detectors.detectors
NamesOf(detectors) == [i \in DOMAIN detectors |-> detectors[i].name]

\* C21: what get_enabled_detectors returned holds exactly the registered
\* detectors that are enabled, each once, in ascending priority, those of
\* equal priority in the order of their registration; with the four
\* detectors of Test 3 registered (in any order) it lists project_switch,
\* keyword, entity_mention, token_threshold
C21_EnabledByAscendingPriority ==
    Listed =>
        /\ Range(Listing) = {d \in Range(_detectors) : d.enabled}
        /\ Len(Listing) = Cardinality(Range(Listing))
        /\ \A i, j \in DOMAIN Listing :
               i < j =>
                   /\ Listing[i].priority <= Listing[j].priority
                   /\ Listing[i].priority = Listing[j].priority =>
                          IndexOf(_detectors, Listing[i].name)
                              < IndexOf(_detectors, Listing[j].name)
        /\ Range(_detectors) = Range(TestDetectors) =>
               NamesOf(Listing) =
                   <<"project_switch_detector", "keyword_detector",
                     "entity_mention_detector", "token_threshold_detector">>

\* four detectors are registered, one of them disabled; two of the listed
\* ones have the same priority, and the listing is not in registration order
C21_Witness ==
    /\ Listed
    /\ Len(_detectors) = 4
    /\ Len(Listing) = 3
    /\ \E i, j \in DOMAIN Listing :
           i < j /\ Listing[i].priority = Listing[j].priority
    /\ Listing # SelectSeq(_detectors, IsEnabled)

====
